---- MODULE Spec2Model ----
(***************************************************************************)
(* Idempotent side-effect orchestration of the FitAI backend:              *)
(*   - the meal-analysis pipeline of app/main.py (analyze_meal): request   *)
(*     ledger, quota reservation, inference call, commit, compensation;    *)
(*   - the payment reconciliation of app/payments.py: webhook and refresh  *)
(*     converging on one subscription extension per payment.               *)
(* The relational store is the only shared state; every handler is cut at  *)
(* its awaits on the store or on an external provider, and a transaction   *)
(* is one step.  Time is counted in days.                                  *)
(***************************************************************************)
EXTENDS Integers, FiniteSets, Sequences, TLC

\* ------------------------------------------------------------------ bounds
MaxStarts == 3       \* analyze_meal calls begun in a run
MaxNow == 1          \* the last day of the clock
MaxDeliveries == 2   \* webhook deliveries and refresh calls in a run
MaxRuns == 3         \* runs of the reminder jobs begun
MaxRedeems == 4      \* redeem_referral_code calls begun

Users == {"u1", "u2"}
Submitters == {"u1"}           \* the owners that submit meals
Keys == {"k1", "k2"}           \* idempotency keys
NoKey == "nokey"
\* the keys of the sequential scenario: K1, K1 again, K2, K3
ScenarioKeys == <<"k1", "k1", "k2", "k3">>
AllKeys == Keys \cup {ScenarioKeys[i] : i \in DOMAIN ScenarioKeys}               \* a submission without Idempotency-Key
Reqs == {1, 2}                 \* concurrent analyze_meal calls
PaymentIds == {"p1"}
EventIds == {"e1", "e2"}
Procs == {"a", "b"}            \* server processes, each with its own dedupe set
Refs == {1}                    \* concurrent refresh calls

\* --------------------------------------------------------------- constants
None == -1                     \* subscription_active_until IS NULL; days are counted from 0
FreeDailyLimit == 2
ActiveDailyLimit == 20
SUBSCRIPTION_DURATION_DAYS == 30
_REFERRAL_BONUS_CREDITS == 1

VARIABLES
    now,               \* the clock, in days
    users,             \* users table: subscription_status, subscription_active_until, referral_credits
    analyze_requests,  \* request ledger, one row per (user_id, idempotency_key)
    usage_daily,       \* quota counters, one row per (user_id, date)
    meals,             \* meal rows per (user_id, key)
    daily_stats,       \* daily_stats.meals_count per (user_id, date)
    req,               \* the in-flight analyze_meal calls (their local variables)
    started,           \* number of analyze_meal calls begun so far
    execCalls,         \* inference calls made for each (user_id, key)
    firstResp,         \* the response returned by the call that completed (user_id, key)
    yookassa_payments,      \* payment mapping, one row per payment_id
    payment_webhook_events, \* event ledger: status per dedupe key present
    payment_events,         \* events rows of type payment_succeeded, as (user_id, paymentId)
    webhook_dedupe_memory,  \* the in-process dedupe set of each server process
    ref,               \* the in-flight refresh_yookassa_payment calls
    delivered,         \* number of webhook deliveries and refresh calls so far
    extCount,          \* number of subscription extensions applied under each dedupe key
    lastHook,          \* the webhook delivery being answered, with its response
    reminder_deliveries,   \* delivery reservations, one row per (user_id, date, reminder_type)
    job,               \* the runs of the reminder jobs in progress (their local variables)
    jobRuns,           \* number of job runs begun so far
    sends,             \* the sender's returns for each (user_id, date, reminder_type): ok and failed
    referral_redemptions,  \* redemption rows, at most one per redeemer_user_id
    red,               \* the in-flight redeem_referral_code calls
    redeems,           \* number of redeem calls begun so far
    redeemOk           \* number of calls answered redeemed: true, for each user

mealVars == <<analyze_requests, usage_daily, meals, daily_stats, req, started, execCalls, firstResp>>
payVars == <<yookassa_payments, payment_webhook_events, payment_events, webhook_dedupe_memory,
             ref, delivered, extCount, lastHook>>
reminderVars == <<reminder_deliveries, job, jobRuns, sends>>
referralVars == <<referral_redemptions, red, redeems, redeemOk>>
otherVars == <<reminderVars, referralVars>>
vars == <<now, users, mealVars, payVars, otherVars>>

\* ------------------------------------------------------------ small helpers
Max(a, b) == IF a >= b THEN a ELSE b

NoRid == <<>>
Null == [tag |-> "null", val |-> <<>>]

\* json.dumps / json.loads of the response payload stored in response_json
JsonDumps(payload) == [tag |-> "str", val |-> payload]
JsonLoads(s) == s.val

NoRow == [status |-> "none", response_json |-> Null]

\* ------------------------------------------------------- subscription.py
get_effective_subscription_status(raw_status, active_until, t) ==
    IF raw_status = "blocked" THEN "blocked"
    ELSE IF active_until = None THEN "free"
    ELSE IF active_until >= t THEN "active" ELSE "expired"

get_daily_limit_for_status(status) ==
    IF status = "blocked" THEN 0
    ELSE IF status = "active" THEN ActiveDailyLimit ELSE FreeDailyLimit

get_referral_credits(user) == Max(0, user.referral_credits)

get_user_daily_limit(user, t) ==
    get_daily_limit_for_status(
        get_effective_subscription_status(user.subscription_status, user.subscription_active_until, t))
    + get_referral_credits(user)

\* the users row read by the get_current_user dependency when the request starts
GetCurrentUser(u) == users[u]

\* -------------------------------------------------------- analyze_meal
NoPayload == [meal |-> <<>>, date |-> None, dailyLimit |-> 0, photosUsed |-> 0, status |-> "none"]
NoResult == [kind |-> "none", code |-> "none", body |-> NoPayload]
Ok(payload) == [kind |-> "ok", code |-> "200", body |-> payload]
Err(code) == [kind |-> "error", code |-> code, body |-> NoPayload]
QuotaErr(limit, used, status) ==
    [kind |-> "error", code |-> "QUOTA_EXCEEDED",
     body |-> [meal |-> <<>>, date |-> None, dailyLimit |-> limit, photosUsed |-> used, status |-> status]]

NoSnap == [subscription_status |-> "free", subscription_active_until |-> None, referral_credits |-> 0]

IdleReq ==
    [pc |-> "idle", user |-> "u1", key |-> NoKey, snap |-> NoSnap,
     today |-> None, status |-> "none", daily_limit |-> 0,
     analyze_request_id |-> NoRid, usage_incremented |-> FALSE, reserved_photos_used |-> None,
     exc |-> NoResult, result |-> NoResult,
     \* history of the call, for the properties
     sawCompleted |-> FALSE, found |-> "none", delta |-> 0, calls |-> 0, releaseFailed |-> FALSE,
     ledgerWriteFailed |-> FALSE, path |-> "none"]

\* the call has returned: only its response and its history are kept
Done(rq, response, path) ==
    [IdleReq EXCEPT !.pc = "done", !.user = rq.user, !.key = rq.key, !.result = response,
                    !.sawCompleted = rq.sawCompleted, !.found = rq.found, !.delta = rq.delta,
                    !.calls = rq.calls, !.releaseFailed = rq.releaseFailed,
                    !.ledgerWriteFailed = rq.ledgerWriteFailed, !.path = path]

PhotosUsed(u, d) == IF <<u, d>> \in DOMAIN usage_daily THEN usage_daily[<<u, d>>] ELSE 0

SetUsage(u, d, n) == [x \in (DOMAIN usage_daily) \cup {<<u, d>>} |-> IF x = <<u, d>> THEN n ELSE usage_daily[x]]

Bump(f, x) == [y \in (DOMAIN f) \cup {x} |-> IF y \in DOMAIN f THEN (IF y = x THEN f[y] + 1 ELSE f[y]) ELSE 1]

\* faulty variant: the replay answers without the stored body
ReplayWithoutBody(raw) == Ok(NoPayload)

_load_replay_response(raw) ==
    IF raw.tag = "str" THEN Ok(JsonLoads(raw)) ELSE Err("INTERNAL_ERROR")

\* faulty variant: the except block marks the ledger row and never releases the reservation
FailLedgerOnly(rq, e, path) ==
    IF rq.analyze_request_id # NoRid
    THEN [IdleReq EXCEPT !.pc = "comp_ledger", !.user = rq.user, !.key = rq.key, !.today = rq.today,
                         !.analyze_request_id = rq.analyze_request_id,
                         !.exc = e, !.sawCompleted = rq.sawCompleted, !.found = rq.found,
                         !.delta = rq.delta, !.calls = rq.calls, !.path = path]
    ELSE Done(rq, e, path)

\* the exception e enters the except block (lines 954-972) with the current locals;
\* with nothing to compensate the block goes straight to its raise
Fail(rq, e, path) ==
    IF rq.usage_incremented
    THEN [IdleReq EXCEPT !.pc = "comp_quota", !.user = rq.user, !.key = rq.key, !.today = rq.today,
                         !.usage_incremented = TRUE, !.analyze_request_id = rq.analyze_request_id,
                         !.exc = e, !.sawCompleted = rq.sawCompleted, !.found = rq.found,
                         !.delta = rq.delta, !.calls = rq.calls, !.path = path]
    ELSE IF rq.analyze_request_id # NoRid
    THEN [IdleReq EXCEPT !.pc = "comp_ledger", !.user = rq.user, !.key = rq.key, !.today = rq.today,
                         !.analyze_request_id = rq.analyze_request_id,
                         !.exc = e, !.sawCompleted = rq.sawCompleted, !.found = rq.found,
                         !.delta = rq.delta, !.calls = rq.calls, !.releaseFailed = rq.releaseFailed,
                         !.path = path]
    ELSE Done(rq, e, path)

\* what a delivery carries besides its body: the deployment mode and setting, the sender, the headers
Headers(ip_allowed, basic_ok, bypass_setting, is_production, has_proxy_header) ==
    [ip_allowed |-> ip_allowed, basic_ok |-> basic_ok, bypass_setting |-> bypass_setting,
     is_production |-> is_production, has_proxy_header |-> has_proxy_header]

NoHeaders == Headers(FALSE, FALSE, FALSE, FALSE, FALSE)

NoHook == [headers |-> NoHeaders, payment_id |-> "", named |-> FALSE, key |-> <<>>, confirmed |-> FALSE,
           blocking |-> FALSE, user |-> "", old_until |-> None, code |-> "none", applied |-> "none"]

\* no response is waiting to be sent: a finished handler returns before anything else happens
Quiet ==
    /\ \A r \in Reqs : req[r].pc # "done"
    /\ \A i \in Refs : ref[i].pc # "done"
    /\ lastHook = NoHook

\* request received: dependencies resolved, multipart validated (lines 493-577)
\* faulty variant: the processing row is inserted before the request is validated
SubmitLedgerFirst(r, keys, valids) ==
    /\ Quiet
    /\ req[r].pc = "idle"
    /\ \A q \in Reqs : q < r => req[q].pc # "idle"
    /\ \E u \in Submitters, k \in keys, valid \in valids :
        LET rq == [IdleReq EXCEPT !.user = u, !.key = k, !.snap = GetCurrentUser(u),
                       !.sawCompleted = (k # NoKey /\ analyze_requests[<<u, k>>].status = "completed")]
        IN /\ req' = [req EXCEPT ![r] =
                IF ~valid THEN Done(rq, Err("VALIDATION_FAILED"), "validation")
                ELSE [rq EXCEPT !.pc = IF k = NoKey THEN "precheck" ELSE "lookup"]]
           /\ analyze_requests' =
                IF k # NoKey /\ analyze_requests[<<u, k>>].status = "none"
                THEN [analyze_requests EXCEPT ![<<u, k>>] = [status |-> "processing", response_json |-> Null]]
                ELSE analyze_requests
    /\ started' = started + 1
    /\ UNCHANGED <<now, users, usage_daily, meals, daily_stats, execCalls, firstResp, payVars, otherVars>>

\* faulty variant: every submission goes to the rate limit and the quota precheck first
SubmitPrecheckFirst(r, keys, valids) ==
    /\ Quiet
    /\ req[r].pc = "idle"
    /\ \A q \in Reqs : q < r => req[q].pc # "idle"
    /\ \E u \in Submitters, k \in keys, valid \in valids :
        LET rq == [IdleReq EXCEPT !.user = u, !.key = k, !.snap = GetCurrentUser(u),
                       !.sawCompleted = (k # NoKey /\ analyze_requests[<<u, k>>].status = "completed")]
        IN req' = [req EXCEPT ![r] =
                IF ~valid THEN Done(rq, Err("VALIDATION_FAILED"), "validation")
                ELSE [rq EXCEPT !.pc = "precheck"]]
    /\ started' = started + 1
    /\ UNCHANGED <<now, users, analyze_requests, usage_daily, meals, daily_stats, execCalls, firstResp, payVars, otherVars>>

Submit(r, keys, valids) ==
    /\ Quiet
    /\ req[r].pc = "idle"
    /\ \A q \in Reqs : q < r => req[q].pc # "idle"
    /\ \E u \in Submitters, k \in keys, valid \in valids :
        LET rq == [IdleReq EXCEPT !.user = u, !.key = k, !.snap = GetCurrentUser(u),
                       !.sawCompleted = (k # NoKey /\ analyze_requests[<<u, k>>].status = "completed")]
        IN req' = [req EXCEPT ![r] =
                IF ~valid THEN Done(rq, Err("VALIDATION_FAILED"), "validation")
                ELSE [rq EXCEPT !.pc = IF k = NoKey THEN "precheck" ELSE "lookup"]]
    /\ started' = started + 1
    /\ UNCHANGED <<now, users, analyze_requests, usage_daily, meals, daily_stats, execCalls, firstResp, payVars, otherVars>>

StartWith(r, keys) ==
    /\ started < MaxStarts
    /\ Submit(r, keys, BOOLEAN)

\* the next submission of the scenario: valid, with the scenario's next key
ScenarioStart(r) ==
    /\ started < Len(ScenarioKeys)
    /\ Submit(r, {ScenarioKeys[started + 1]}, {TRUE})

Start(r) == StartWith(r, Keys \cup {NoKey})

\* faulty variant: a failed row is taken for no row, so the key can be retried
MissingOrFailed(row) == row.status \in {"none", "failed"}

\* no ledger row exists for the (user_id, idempotency_key) (lines 585, 649)
NoRecord(row) == row.status = "none"

\* faulty variant: the status test never matches, so nothing is replayed
NeverReplayable(row) == FALSE

\* a stored row is replayed when it is completed and holds a response (lines 586, 650)
IsReplayable(row) == row.status = "completed" /\ row.response_json # Null

\* initial ledger lookup (lines 579-593)
Lookup(r) ==
    /\ Quiet
    /\ req[r].pc = "lookup"
    /\ LET row == analyze_requests[<<req[r].user, req[r].key>>]
           rq == [req[r] EXCEPT !.found = row.status]
       IN req' = [req EXCEPT ![r] =
            IF NoRecord(row) THEN [rq EXCEPT !.pc = "precheck"]
            ELSE IF IsReplayable(row)
                 THEN Done(rq, _load_replay_response(row.response_json), "replay_lookup")
            ELSE Done(rq, Err("IDEMPOTENCY_CONFLICT"), "conflict_lookup")]
    /\ UNCHANGED <<now, users, analyze_requests, usage_daily, meals, daily_stats, started, execCalls, firstResp, payVars, otherVars>>

\* rate limit on the analyze_started events of the last minute, which are not kept here: either
\* answer (lines 222-259, 595); then the limit computed from the request's user and the quota
\* precheck without lock (lines 597-622)
PrecheckWith(r, limits) ==
    /\ Quiet
    /\ req[r].pc = "precheck"
    /\ \E limited \in limits :
        LET u == req[r].user
            status == get_effective_subscription_status(
                          req[r].snap.subscription_status, req[r].snap.subscription_active_until, now)
            daily_limit == get_user_daily_limit(req[r].snap, now)
            photos_used == PhotosUsed(u, now)
        IN req' = [req EXCEPT ![r] =
             IF limited THEN Done(@, Err("RATE_LIMITED"), "rate_limit")
             ELSE IF photos_used >= daily_limit
             THEN Done(@, QuotaErr(daily_limit, photos_used, status), "quota_precheck")
             ELSE [@ EXCEPT !.pc = IF req[r].key = NoKey THEN "reserve" ELSE "insert",
                            !.today = now, !.status = status, !.daily_limit = daily_limit]]
    /\ UNCHANGED <<now, users, analyze_requests, usage_daily, meals, daily_stats, started, execCalls, firstResp, payVars, otherVars>>

Precheck(r) == PrecheckWith(r, BOOLEAN)

\* INSERT of the processing row; a unique violation leads to the read-back (lines 632-643)
InsertLedger(r) ==
    /\ Quiet
    /\ req[r].pc = "insert"
    /\ LET uk == <<req[r].user, req[r].key>> IN
        IF analyze_requests[uk].status = "none"
        THEN /\ analyze_requests' = [analyze_requests EXCEPT ![uk] = [status |-> "processing", response_json |-> Null]]
             /\ req' = [req EXCEPT ![r].pc = "reserve", ![r].analyze_request_id = uk]
        ELSE /\ req' = [req EXCEPT ![r].pc = "readback"]
             /\ UNCHANGED analyze_requests
    /\ UNCHANGED <<now, users, usage_daily, meals, daily_stats, started, execCalls, firstResp, payVars, otherVars>>

\* the row id the loser of the insert race keeps before it raises the conflict (line 652)
RaceLoserRequestId(uk) == uk

\* the loser of the insert race reads the row back (lines 643-658)
ReadBack(r) ==
    /\ Quiet
    /\ req[r].pc = "readback"
    /\ LET uk == <<req[r].user, req[r].key>>
           row == analyze_requests[uk]
           rq == [req[r] EXCEPT !.found = row.status]
       IN req' = [req EXCEPT ![r] =
            IF NoRecord(row)
            THEN Fail(rq, Err("IDEMPOTENCY_CONFLICT"), "conflict_race")
            ELSE IF IsReplayable(row)
            THEN Done(rq, _load_replay_response(row.response_json), "replay_race")
            ELSE Fail([rq EXCEPT !.analyze_request_id = RaceLoserRequestId(uk)],
                      Err("IDEMPOTENCY_CONFLICT"), "conflict_race")]
    /\ UNCHANGED <<now, users, analyze_requests, usage_daily, meals, daily_stats, started, execCalls, firstResp, payVars, otherVars>>

\* faulty variant: the count is not compared again under the lock
QuotaNotRechecked(photos_used, daily_limit) == TRUE

\* faulty variant: the comparison off by one
QuotaAvailableInclusive(photos_used, daily_limit) == photos_used <= daily_limit

\* the comparison made under the row lock (line 676)
QuotaAvailable(photos_used, daily_limit) == photos_used < daily_limit

\* quota reservation, one short transaction under the row lock (lines 660-714)
Reserve(r) ==
    /\ Quiet
    /\ req[r].pc = "reserve"
    /\ LET u == req[r].user
           d == req[r].today
           photos_used == PhotosUsed(u, d)
       IN IF ~QuotaAvailable(photos_used, req[r].daily_limit)
          THEN /\ req' = [req EXCEPT ![r] =
                              Fail(@, QuotaErr(@.daily_limit, photos_used, @.status), "quota_reserve")]
               /\ UNCHANGED usage_daily
          ELSE /\ usage_daily' = SetUsage(u, d, photos_used + 1)
               /\ req' = [req EXCEPT ![r].pc = "reserved",
                                     ![r].reserved_photos_used = photos_used + 1,
                                     ![r].usage_incremented = TRUE,
                                     ![r].delta = @ + 1]
    /\ UNCHANGED <<now, users, analyze_requests, meals, daily_stats, started, execCalls, firstResp, payVars, otherVars>>

\* the failure-injection switch is on (lines 716-722)
ForcedFailure(r) ==
    /\ Quiet
    /\ req[r].pc = "reserved"
    /\ req' = [req EXCEPT ![r] = Fail(@, Err("INTERNAL_ERROR"), "forced")]
    /\ UNCHANGED <<now, users, analyze_requests, usage_daily, meals, daily_stats, started, execCalls, firstResp, payVars, otherVars>>

AIOutcomes == {"ok", "provider_error", "invalid_json", "not_object", "schema_invalid"}

\* the error raised for an inference outcome that is not a valid contract object (lines 739-774)
AIError(outcome) ==
    IF outcome = "provider_error" THEN Err("AI_PROVIDER_ERROR") ELSE Err("VALIDATION_FAILED")

\* inference call and validation of its output, outside any transaction (lines 724-779)
CallInferenceWith(r, outcomes) ==
    /\ Quiet
    /\ req[r].pc = "reserved"
    /\ \E outcome \in outcomes :
        req' = [req EXCEPT ![r] =
            IF outcome = "ok"
            THEN [@ EXCEPT !.pc = "finalize", !.calls = @ + 1]
            ELSE Fail([@ EXCEPT !.calls = @ + 1], AIError(outcome), "inference")]
    /\ execCalls' = IF req[r].key = NoKey THEN execCalls
                    ELSE [execCalls EXCEPT ![<<req[r].user, req[r].key>>] = @ + 1]
    /\ UNCHANGED <<now, users, analyze_requests, usage_daily, meals, daily_stats, started, firstResp, payVars, otherVars>>

CallInference(r) == CallInferenceWith(r, AIOutcomes)

FinalizeFailures == {"none", "meal_insert", "daily_stats", "request_complete"}

\* the response body built at lines 879-899
ResponsePayload(rq) ==
    [meal |-> <<rq.user, rq.key>>, date |-> rq.today, dailyLimit |-> rq.daily_limit,
     photosUsed |-> rq.reserved_photos_used, status |-> rq.status]

\* faulty variant: the completing UPDATE without its status condition
CommitUnconditional(row) == TRUE

\* the conditional UPDATE that completes the ledger row (lines 901-911): TRUE iff a row was updated
CanComplete(row) == row.status = "processing"

\* faulty variant: the writes made before the exception stay in the store
KeepPartialWrite(before, written) == written

\* an exception inside "async with conn.transaction()" undoes the block's writes (line 782)
Rollback(before, written) == before

\* meal row, daily totals and ledger completion in one transaction (lines 781-952)
FinalizeWith(r, faults) ==
    /\ Quiet
    /\ req[r].pc = "finalize"
    /\ \E fault \in faults :
        LET rq == req[r]
            uk == <<rq.user, rq.key>>
            keyed == rq.key # NoKey /\ rq.analyze_request_id # NoRid
            conflict == keyed /\ meals[uk] > 0
            lost == keyed /\ ~CanComplete(analyze_requests[uk])
            \* what the block had written when the exception was raised
            wroteMeal == fault # "meal_insert" /\ rq.reserved_photos_used # None /\ ~conflict
            wroteStats == wroteMeal /\ fault # "daily_stats"
        IN IF fault = "none" /\ rq.reserved_photos_used # None /\ ~conflict /\ ~lost
           THEN /\ meals' = [meals EXCEPT ![uk] = @ + 1]
                /\ daily_stats' = Bump(daily_stats, <<rq.user, rq.today>>)
                /\ analyze_requests' =
                      IF keyed
                      THEN [analyze_requests EXCEPT ![uk] =
                               [status |-> "completed", response_json |-> JsonDumps(ResponsePayload(rq))]]
                      ELSE analyze_requests
                /\ firstResp' = IF keyed THEN [firstResp EXCEPT ![uk] = Ok(ResponsePayload(rq))] ELSE firstResp
                /\ req' = [req EXCEPT ![r] = Done(rq, Ok(ResponsePayload(rq)), "ok")]
           ELSE /\ req' = [req EXCEPT ![r] =
                              Fail(@, Err("INTERNAL_ERROR"), IF fault = "none" THEN "commit_lost" ELSE "commit")]
                /\ meals' = Rollback(meals, IF wroteMeal THEN [meals EXCEPT ![uk] = @ + 1] ELSE meals)
                /\ daily_stats' = Rollback(daily_stats,
                                           IF wroteStats THEN Bump(daily_stats, <<rq.user, rq.today>>)
                                           ELSE daily_stats)
                /\ UNCHANGED <<analyze_requests, firstResp>>
    /\ UNCHANGED <<now, users, usage_daily, started, execCalls, payVars, otherVars>>

Finalize(r) == FinalizeWith(r, FinalizeFailures)

\* faulty variant: the release leaves the counter as it is
ReleaseNothing(photos_used) == photos_used

\* faulty variant: the release subtracts one without the floor
ReleaseUnfloored(photos_used) == photos_used - 1

\* GREATEST(0, photos_used - 1) of the release (line 959)
Release(photos_used) == Max(0, photos_used - 1)

\* faulty variant: a failing release write leaves the except block as a new error
ReleaseFailureRaises(rq, writeOk, change) ==
    IF writeOk
    THEN Fail([rq EXCEPT !.usage_incremented = FALSE, !.delta = @ + change], rq.exc, rq.path)
    ELSE Done([rq EXCEPT !.delta = @ + change, !.releaseFailed = TRUE], Err("INTERNAL_ERROR"), rq.path)

\* after the release write: its failure is caught and logged, and the except block goes on with
\* the exception it was entered with (lines 962-963)
ReleaseLogged(rq, writeOk, change) ==
    Fail([rq EXCEPT !.usage_incremented = FALSE, !.delta = @ + change, !.releaseFailed = ~writeOk],
         rq.exc, rq.path)

\* compensation, first write: release the reservation; a failing write is only logged (lines 956-963)
CompensateQuotaWith(r, writes) ==
    /\ Quiet
    /\ req[r].pc = "comp_quota"
    /\ \E writeOk \in writes :
        LET rq == req[r]
            ud == <<rq.user, rq.today>>
            after == IF writeOk /\ ud \in DOMAIN usage_daily
                     THEN [usage_daily EXCEPT ![ud] = Release(@)] ELSE usage_daily
            change == (IF ud \in DOMAIN after THEN after[ud] ELSE 0) - PhotosUsed(rq.user, rq.today)
        IN /\ usage_daily' = after
           /\ req' = [req EXCEPT ![r] = ReleaseLogged(rq, writeOk, change)]
    /\ UNCHANGED <<now, users, analyze_requests, meals, daily_stats, started, execCalls, firstResp, payVars, otherVars>>

CompensateQuota(r) == CompensateQuotaWith(r, BOOLEAN)

\* faulty variant: the compensation leaves the ledger row as it is
LeaveProcessing(row) == row

\* the conditional UPDATE that marks a ledger row failed (line 968)
MarkFailed(row) == IF row.status = "processing" THEN [row EXCEPT !.status = "failed"] ELSE row

\* compensation, second write: mark the request failed; then the error is raised (lines 965-1025)
CompensateLedgerWith(r, writes) ==
    /\ Quiet
    /\ req[r].pc = "comp_ledger"
    /\ \E writeOk \in writes :
        /\ analyze_requests' =
              IF writeOk
              THEN [analyze_requests EXCEPT ![req[r].analyze_request_id] = MarkFailed(@)]
              ELSE analyze_requests
        /\ req' = [req EXCEPT ![r] =
                       Done([@ EXCEPT !.ledgerWriteFailed = ~writeOk], req[r].exc, req[r].path)]
    /\ UNCHANGED <<now, users, usage_daily, meals, daily_stats, started, execCalls, firstResp, payVars, otherVars>>

CompensateLedger(r) == CompensateLedgerWith(r, BOOLEAN)

\* the response has been sent; the worker is free again
Return(r) ==
    /\ req[r].pc = "done"
    /\ req' = [req EXCEPT ![r] = IdleReq]
    /\ UNCHANGED <<now, users, analyze_requests, usage_daily, meals, daily_stats, started, execCalls, firstResp, payVars, otherVars>>

\* ------------------------------------------------------------ payments.py
\* paid and captured are "true", "false" or absent from the object
Absent == "absent"

\* hashlib.sha256(source).hexdigest(): distinct sources give distinct keys
Sha256(source) == <<"sha256", source>>

_payment_success_dedupe_source(payment_id) == <<"payment_success", payment_id>>

_payment_success_dedupe_key(payment_id) == Sha256(_payment_success_dedupe_source(payment_id))

\* faulty variant: every event, payment.succeeded included, is keyed by its event id
DedupeKeyByEventId(payload) == Sha256(<<"event_id", payload.event_id>>)

\* lines 201-217; an absent or empty field is ""; created_at, part of the fallback source, is left out
_webhook_dedupe_key(payload) ==
    IF payload.event = "payment.succeeded" /\ payload.object.id # ""
    THEN Sha256(_payment_success_dedupe_source(payload.object.id))
    ELSE IF payload.event_id # ""
    THEN Sha256(<<"event_id", payload.event_id>>)
    ELSE Sha256(<<"fallback", payload.event, payload.object.id, payload.object.status>>)

_is_successful_payment_event(event_name, payment_object) ==
    \/ event_name = "payment.succeeded"
    \/ /\ payment_object.status = "succeeded"
       /\ payment_object.paid = "true"
       /\ payment_object.captured = "true"

\* faulty variant: whatever the provider reports counts as paid
EveryStatusSucceeds(payment_object) == TRUE

\* faulty variant: the status alone decides, an explicit paid = false included
SucceededStatusOnly(payment_object) == payment_object.status = "succeeded"

\* lines 311-322: status succeeded and neither paid nor captured explicitly false

_is_successful_provider_payment_for_refresh(payment_object) ==
    IF payment_object.status # "succeeded" THEN FALSE
    ELSE IF payment_object.paid = "false" \/ payment_object.captured = "false" THEN FALSE
    ELSE TRUE

_is_blocking_payment_event(event_name, payment_object) ==
    \/ event_name \in {"refund.succeeded", "payment.canceled"}
    \/ payment_object.status = "canceled"

NoMapping == [user_id |-> "", status |-> "none"]

\* lines 265-285
_resolve_user_id_for_payment(payment_object, payment_id) ==
    IF payment_object.metadata_user_id # "" THEN payment_object.metadata_user_id
    ELSE IF payment_id # "" /\ yookassa_payments[payment_id].status # "none"
         THEN yookassa_payments[payment_id].user_id
    ELSE ""

\* faulty variant: the extension always starts from now
ExtensionBaseNow(old_until, t) == t

\* the base of an extension (lines 889-894, 1217-1222)
ExtensionBase(old_until, t) == IF old_until # None /\ old_until > t THEN old_until ELSE t

\* the new active-until of an extension (lines 895, 1223)
NewUntil(old_until, t) == ExtensionBase(old_until, t) + SUBSCRIPTION_DURATION_DAYS

\* UPDATE users SET subscription_status = 'active', subscription_active_until = new_until
ExtendUser(row, t) ==
    [row EXCEPT !.subscription_status = "active",
                !.subscription_active_until = NewUntil(row.subscription_active_until, t)]

\* UPDATE users SET subscription_status = 'blocked' (lines 1308-1315)
BlockUser(row) == [row EXCEPT !.subscription_status = "blocked"]

\* UPDATE yookassa_payments SET status = ... WHERE payment_id = ...: no row, no change
SetMappingStatus(payment_id, status) ==
    IF payment_id \in PaymentIds /\ yookassa_payments[payment_id].status # "none"
    THEN [yookassa_payments EXCEPT ![payment_id].status = status]
    ELSE yookassa_payments

LedgerStatus(key) == IF key \in DOMAIN payment_webhook_events THEN payment_webhook_events[key] ELSE "none"

\* faulty variant: the insert ignores the unique key
LedgerInsertAlwaysWins(key) == TRUE

\* INSERT ... ON CONFLICT (dedupe_key) DO NOTHING RETURNING: TRUE iff this caller inserted the row
LedgerInsertWins(key) == LedgerStatus(key) = "none"

\* faulty variant: the ledger write is lost
LedgerNotWritten(key, status) == payment_webhook_events

SetLedger(key, status) ==
    [k \in (DOMAIN payment_webhook_events) \cup {key} |-> IF k = key THEN status ELSE payment_webhook_events[k]]

\* status = succeeded, paid = true, captured = true, all three present
FullyConfirmed(payment_object) ==
    payment_object.status = "succeeded" /\ payment_object.paid = "true" /\ payment_object.captured = "true"

ExtCount(key) == IF key \in DOMAIN extCount THEN extCount[key] ELSE 0

CountExtension(key) ==
    [k \in (DOMAIN extCount) \cup {key} |-> IF k = key THEN ExtCount(key) + 1 ELSE extCount[k]]

\* lines 171-194; the headers and settings of the delivery are its inputs
\* a verification whose bypass forgets the deployment mode
VerifyBypassAnywhere(ip_allowed, basic_ok, bypass_setting, is_production, has_proxy_header) ==
    ip_allowed /\ (basic_ok \/ (bypass_setting /\ has_proxy_header))

_verify_yookassa_webhook(ip_allowed, basic_ok, bypass_setting, is_production, has_proxy_header) ==
    IF ~ip_allowed THEN FALSE
    ELSE IF basic_ok THEN TRUE
    ELSE (bypass_setting /\ ~is_production) /\ ~is_production /\ has_proxy_header

Obj(id, status, paid, captured, metadata_user_id) ==
    [id |-> id, status |-> status, paid |-> paid, captured |-> captured, metadata_user_id |-> metadata_user_id]

\* the payment objects a delivery may carry: confirmed, unconfirmed and partial ones
PaymentStates ==
    {<<"succeeded", "true", "true">>, <<"succeeded", Absent, Absent>>, <<"succeeded", "true", "false">>,
     <<"pending", "false", "false">>, <<"canceled", "false", "false">>}

PaymentObjects ==
    {Obj(id, st[1], st[2], st[3], m) : id \in PaymentIds \cup {""}, st \in PaymentStates, m \in {"", "u1"}}

WebhookPayloads ==
    {w \in [event : {"payment.succeeded", "payment.waiting_for_capture", "payment.canceled"},
            event_id : EventIds,
            object : PaymentObjects] :
        /\ w.event = "payment.succeeded" => w.object.status = "succeeded"
        /\ w.event = "payment.canceled" => w.object.status = "canceled"}

AllHeaders ==
    {Headers(ip_allowed, basic_ok, bypass_setting, is_production, has_proxy_header) :
        ip_allowed \in BOOLEAN, basic_ok \in BOOLEAN, bypass_setting \in BOOLEAN,
        is_production \in BOOLEAN, has_proxy_header \in BOOLEAN}

\* the provider's own deliveries in production: with the shared credential, and without it
ProviderHeaders ==
    {Headers(TRUE, basic_ok, FALSE, TRUE, TRUE) : basic_ok \in BOOLEAN}

\* faulty variant: every delivery passes the verification
AcceptEveryDelivery(headers) == TRUE

verify_yookassa_webhook(headers) ==
    _verify_yookassa_webhook(headers.ip_allowed, headers.basic_ok, headers.bypass_setting,
                             headers.is_production, headers.has_proxy_header)

\* the delivery and its answer: the payment and event named, the dedupe key, the subscriber touched
HookResult(payload, code, applied, user_id, headers) ==
    [headers |-> headers, payment_id |-> payload.object.id, named |-> payload.event = "payment.succeeded",
     key |-> _webhook_dedupe_key(payload), confirmed |-> FullyConfirmed(payload.object),
     blocking |-> _is_blocking_payment_event(payload.event, payload.object),
     user |-> user_id,
     old_until |-> IF user_id \in Users THEN users[user_id].subscription_active_until ELSE None,
     code |-> code, applied |-> applied]

\* POST /yookassa/webhook (lines 1041-1415); the transaction is one step
Webhook(proc, payload, headers) ==
    LET event_type == payload.event
        payment_object == payload.object
        payment_id == payment_object.id
        dedupe_key == _webhook_dedupe_key(payload)
        verified == verify_yookassa_webhook(headers)
    IN
    /\ Quiet
    /\ delivered < MaxDeliveries
    /\ delivered' = delivered + 1
    /\ UNCHANGED <<now, mealVars, otherVars, ref>>
    /\ IF ~verified
       THEN /\ lastHook' = HookResult(payload, "PAYMENT_WEBHOOK_INVALID", "none", "", headers)
            /\ UNCHANGED <<users, yookassa_payments, payment_webhook_events, payment_events,
                           webhook_dedupe_memory, extCount>>
       ELSE IF dedupe_key \in webhook_dedupe_memory[proc]
       THEN /\ lastHook' = HookResult(payload, "ok", "memory_duplicate", "", headers)
            /\ UNCHANGED <<users, yookassa_payments, payment_webhook_events, payment_events,
                           webhook_dedupe_memory, extCount>>
       ELSE IF ~LedgerInsertWins(dedupe_key)
       THEN /\ lastHook' = HookResult(payload, "ok", "duplicate", "", headers)
            /\ UNCHANGED <<users, yookassa_payments, payment_webhook_events, payment_events,
                           webhook_dedupe_memory, extCount>>
       ELSE IF _is_successful_payment_event(event_type, payment_object)
       THEN LET user_id == _resolve_user_id_for_payment(payment_object, payment_id) IN
            IF user_id = "" \/ user_id \notin Users
            THEN \* rolled back, the processing row deleted, the key dropped from the set
                 /\ lastHook' = HookResult(payload, "PAYMENT_PROVIDER_ERROR", "none", "", headers)
                 /\ webhook_dedupe_memory' = [webhook_dedupe_memory EXCEPT ![proc] = @ \ {dedupe_key}]
                 /\ UNCHANGED <<users, yookassa_payments, payment_webhook_events, payment_events, extCount>>
            ELSE /\ users' = [users EXCEPT ![user_id] = ExtendUser(@, now)]
                 /\ yookassa_payments' = SetMappingStatus(payment_id, "succeeded")
                 /\ payment_events' = payment_events \cup {<<user_id, payment_id>>}
                 /\ payment_webhook_events' = SetLedger(dedupe_key, "completed")
                 /\ webhook_dedupe_memory' = [webhook_dedupe_memory EXCEPT ![proc] = @ \cup {dedupe_key}]
                 /\ extCount' = CountExtension(dedupe_key)
                 /\ lastHook' = HookResult(payload, "ok", "extended", user_id, headers)
       ELSE IF _is_blocking_payment_event(event_type, payment_object)
               /\ payment_object.metadata_user_id # ""
       THEN /\ users' = [users EXCEPT ![payment_object.metadata_user_id] = BlockUser(@)]
            /\ payment_webhook_events' = SetLedger(dedupe_key, "completed")
            /\ webhook_dedupe_memory' = [webhook_dedupe_memory EXCEPT ![proc] = @ \cup {dedupe_key}]
            /\ lastHook' = HookResult(payload, "ok", "blocked", payment_object.metadata_user_id, headers)
            /\ UNCHANGED <<yookassa_payments, payment_events, extCount>>
       ELSE /\ payment_webhook_events' = SetLedger(dedupe_key, "completed")
            /\ webhook_dedupe_memory' = [webhook_dedupe_memory EXCEPT ![proc] = @ \cup {dedupe_key}]
            /\ lastHook' = HookResult(payload, "ok", "recorded", "", headers)
            /\ UNCHANGED <<users, yookassa_payments, payment_events, extCount>>

\* one delivery of the provider, with its headers
Deliver ==
    \E proc \in Procs, payload \in WebhookPayloads, headers \in ProviderHeaders :
        Webhook(proc, payload, headers)

\* the deliveries of one event about one payment
AuthPayloads ==
    {w \in WebhookPayloads :
        w.event_id = "e1" /\ w.object.id = "p1" /\ w.object.metadata_user_id = "u1"}

\* one delivery from any sender, in any deployment mode, with any headers
DeliverAny ==
    \E payload \in AuthPayloads, headers \in AllHeaders :
        Webhook("a", payload, headers)

\* the answer to the delivery has been sent
HookReturn ==
    /\ lastHook # NoHook
    /\ lastHook' = NoHook
    /\ UNCHANGED <<now, users, mealVars, otherVars, yookassa_payments, payment_webhook_events, payment_events,
                   webhook_dedupe_memory, ref, delivered, extCount>>

\* the status kept for a new mapping (line 246)
PersistedStatus(status) ==
    IF status \in {"created", "succeeded", "canceled", "refunded"} THEN status ELSE "created"

\* POST /yookassa/create (lines 666-790): the provider returns the payment with its status
CreatePayment ==
    /\ Quiet
    /\ \E u \in Users, payment_id \in PaymentIds, status \in {"pending", "succeeded"} :
        /\ yookassa_payments[payment_id] # [user_id |-> u, status |-> PersistedStatus(status)]
        /\ yookassa_payments' = [yookassa_payments EXCEPT ![payment_id] =
                                    [user_id |-> u, status |-> PersistedStatus(status)]]
        /\ UNCHANGED <<now, users, mealVars, otherVars, payment_webhook_events, payment_events,
                       webhook_dedupe_memory, ref, delivered, extCount, lastHook>>

NoObject == [status |-> "", paid |-> Absent, captured |-> Absent]

IdleRef == [pc |-> "idle", user |-> "u1", payment_id |-> "", provider_payment |-> NoObject,
            code |-> "none", path |-> "none", called |-> FALSE, old_until |-> None]

\* the call has returned: its inputs, its answer and the subscriber's active-until it started from
RefDone(rf, code, path) ==
    [rf EXCEPT !.pc = "done", !.code = code, !.path = path,
               !.old_until = users[rf.user].subscription_active_until]

\* faulty variant: the mapping is looked up without the caller's id
MappingExists(u, payment_id) == yookassa_payments[payment_id].status # "none"

\* the ownership check of refresh (lines 803-818)
OwnsPayment(u, payment_id) ==
    /\ yookassa_payments[payment_id].status # "none"
    /\ yookassa_payments[payment_id].user_id = u

RefreshStart(i) ==
    /\ Quiet
    /\ ref[i].pc = "idle"
    /\ \A j \in Refs : j < i => ref[j].pc # "idle"
    /\ delivered < MaxDeliveries
    /\ delivered' = delivered + 1
    /\ \E u \in Users, payment_id \in PaymentIds :
        LET rf == [IdleRef EXCEPT !.user = u, !.payment_id = payment_id] IN
        ref' = [ref EXCEPT ![i] =
            IF OwnsPayment(u, payment_id) THEN [rf EXCEPT !.pc = "fetch"]
            ELSE RefDone(rf, "NOT_FOUND", "not_owner")]
    /\ UNCHANGED <<now, users, mealVars, otherVars, yookassa_payments, payment_webhook_events, payment_events,
                   webhook_dedupe_memory, extCount, lastHook>>

\* what GET /payments/{id} may report: the states above and a payment waiting for capture
ProviderStates == PaymentStates \cup {<<"waiting_for_capture", "true", "false">>}

\* GET /payments/{id} at the provider (lines 820-850)
RefreshFetch(i) ==
    /\ Quiet
    /\ ref[i].pc = "fetch"
    /\ \/ ref' = [ref EXCEPT ![i].pc = "local", ![i].called = TRUE]
       \/ \E st \in ProviderStates :
            ref' = [ref EXCEPT ![i].pc = "apply", ![i].called = TRUE,
                               ![i].provider_payment = [status |-> st[1], paid |-> st[2], captured |-> st[3]]]
    /\ UNCHANGED <<now, users, mealVars, otherVars, yookassa_payments, payment_webhook_events, payment_events,
                   webhook_dedupe_memory, delivered, extCount, lastHook>>

\* faulty variant: the fallback never finds a local success
NoLocalSignal(user_id, payment_id) == FALSE

\* lines 565-609
_has_local_payment_success_signal(user_id, payment_id) ==
    \/ /\ yookassa_payments[payment_id].status = "succeeded"
       /\ yookassa_payments[payment_id].user_id = user_id
    \/ LedgerStatus(_payment_success_dedupe_key(payment_id)) = "completed"
    \/ <<user_id, payment_id>> \in payment_events

\* the provider call failed: fall back on the local success signal (lines 822-849)
RefreshLocal(i) ==
    /\ Quiet
    /\ ref[i].pc = "local"
    /\ ref' = [ref EXCEPT ![i] =
          IF _has_local_payment_success_signal(@.user, @.payment_id)
          THEN RefDone(@, "ok", "local_success")
          ELSE RefDone(@, "PAYMENT_PROVIDER_ERROR", "fetch_failed")]
    /\ UNCHANGED <<now, users, mealVars, otherVars, yookassa_payments, payment_webhook_events, payment_events,
                   webhook_dedupe_memory, delivered, extCount, lastHook>>

\* the provider answered: apply its status (lines 850-1038); the transaction is one step
RefreshApply(i) ==
    /\ Quiet
    /\ ref[i].pc = "apply"
    /\ LET rf == ref[i]
           u == rf.user
           payment_id == rf.payment_id
           payment_status == rf.provider_payment.status
           dedupe_key == _payment_success_dedupe_key(payment_id)
       IN
       IF _is_successful_provider_payment_for_refresh(rf.provider_payment)
       THEN IF LedgerInsertWins(dedupe_key)
            THEN /\ users' = [users EXCEPT ![u] = ExtendUser(@, now)]
                 /\ yookassa_payments' = SetMappingStatus(payment_id, "succeeded")
                 /\ payment_events' = payment_events \cup {<<u, payment_id>>}
                 /\ payment_webhook_events' = SetLedger(dedupe_key, "completed")
                 /\ extCount' = CountExtension(dedupe_key)
                 /\ ref' = [ref EXCEPT ![i] = RefDone(rf, "ok", "extended")]
            ELSE /\ yookassa_payments' = SetMappingStatus(payment_id, "succeeded")
                 /\ ref' = [ref EXCEPT ![i] = RefDone(rf, "ok", "duplicate")]
                 /\ UNCHANGED <<users, payment_events, payment_webhook_events, extCount>>
       ELSE IF payment_status \in {"pending", "waiting_for_capture"}
       THEN /\ yookassa_payments' = SetMappingStatus(payment_id, "created")
            /\ ref' = [ref EXCEPT ![i] = RefDone(rf, "ok", "pending")]
            /\ UNCHANGED <<users, payment_events, payment_webhook_events, extCount>>
       ELSE IF payment_status = "canceled"
       THEN /\ yookassa_payments' = SetMappingStatus(payment_id, "canceled")
            /\ ref' = [ref EXCEPT ![i] = RefDone(rf, "PAYMENT_PROVIDER_ERROR", "canceled")]
            /\ UNCHANGED <<users, payment_events, payment_webhook_events, extCount>>
       ELSE /\ ref' = [ref EXCEPT ![i] = RefDone(rf, "PAYMENT_PROVIDER_ERROR", "other_status")]
            /\ UNCHANGED <<users, yookassa_payments, payment_events, payment_webhook_events, extCount>>
    /\ UNCHANGED <<now, mealVars, otherVars, webhook_dedupe_memory, delivered, lastHook>>

RefreshReturn(i) ==
    /\ ref[i].pc = "done"
    /\ ref' = [ref EXCEPT ![i] = IdleRef]
    /\ UNCHANGED <<now, users, mealVars, otherVars, yookassa_payments, payment_webhook_events, payment_events,
                   webhook_dedupe_memory, delivered, extCount, lastHook>>

\* a subscription extension of a submitter commits (the UPDATE of users, lines 1227-1237)
Subscribe ==
    /\ Quiet
    /\ \E u \in Submitters :
        /\ users[u].subscription_active_until = None
        /\ users' = [users EXCEPT ![u] = ExtendUser(@, now)]
    /\ UNCHANGED <<now, mealVars, payVars, otherVars>>

\* a day passes
Tick ==
    /\ Quiet
    /\ now < MaxNow
    /\ now' = now + 1
    /\ UNCHANGED <<users, mealVars, payVars, otherVars>>

\* ------------------------------------------------------------ reminder jobs
Runs == {1, 2}                 \* concurrent runs of the reminder jobs
RunDates == {1}                \* the run_date of the runs: all for the same date
REMINDER_TYPE_DAILY_PROGRESS == "daily_progress"
REMINDER_TYPE_MONTHLY_REPORT == "monthly_report"
ReminderTypes == {REMINDER_TYPE_DAILY_PROGRESS, REMINDER_TYPE_MONTHLY_REPORT}
DeliveryKeys == Users \X RunDates \X ReminderTypes

IdleJob ==
    [pc |-> "idle", reminder_type |-> "none", target_date |-> None, rows |-> {}, user_id |-> "none",
     \* what the last iteration of the loop did with user_id, for the properties
     last |-> "none"]

\* the (user_id, date, reminder_type) of the iteration in progress
JobKey(jb) == <<jb.user_id, jb.target_date, jb.reminder_type>>

NoSends == [ok |-> 0, failed |-> 0]

\* the users a run scans: not blocked; their notifications are taken as enabled (lines 356-376, 573-587)
ScannedUsers == {u \in Users : users[u].subscription_status # "blocked"}

\* a run of run_daily_reminders or run_monthly_reports begins and fetches its rows
JobStart(j) ==
    /\ jobRuns < MaxRuns
    /\ job[j].pc = "idle"
    /\ \A q \in Runs : q < j => job[q].pc # "idle"
    /\ \E type \in ReminderTypes, run_date \in RunDates :
        job' = [job EXCEPT ![j] = [IdleJob EXCEPT !.pc = "loop", !.reminder_type = type,
                                                 !.target_date = run_date, !.rows = ScannedUsers]]
    /\ jobRuns' = jobRuns + 1
    /\ UNCHANGED <<now, users, mealVars, payVars, reminder_deliveries, sends, referralVars>>

\* faulty variant: the insert never reports a conflict
ReserveIgnoresConflict(key) == TRUE

\* INSERT ... ON CONFLICT (user_id, date, reminder_type) DO NOTHING RETURNING id: a row comes back
\* exactly when none was there (lines 265-284)
_reserve_delivery(key) == key \notin reminder_deliveries

\* the next row of the loop: the daily job skips a user without a positive goal (lines 385-387),
\* then the delivery is reserved, and a user whose delivery is reserved already is skipped
\* (lines 392-400, 594-602)
JobReserve(j) ==
    /\ job[j].pc = "loop"
    /\ \E u \in job[j].rows,
          hasGoal \in (IF job[j].reminder_type = REMINDER_TYPE_DAILY_PROGRESS THEN BOOLEAN ELSE {TRUE}) :
        LET jb == [job[j] EXCEPT !.user_id = u, !.rows = @ \ {u}]
            key == JobKey(jb)
        IN IF ~hasGoal
           THEN /\ job' = [job EXCEPT ![j] = [jb EXCEPT !.last = "skipped_goal"]]
                /\ UNCHANGED reminder_deliveries
           ELSE IF _reserve_delivery(key)
           THEN /\ reminder_deliveries' = reminder_deliveries \cup {key}
                /\ job' = [job EXCEPT ![j] = [jb EXCEPT !.pc = "send", !.last = "reserved"]]
           ELSE /\ job' = [job EXCEPT ![j] = [jb EXCEPT !.last = "skipped_reserved"]]
                /\ UNCHANGED reminder_deliveries
    /\ UNCHANGED <<now, users, mealVars, payVars, jobRuns, sends, referralVars>>

\* await sender(chat_id, message_text): it returns or it raises (lines 410-415, 656-661)
JobSend(j) ==
    /\ job[j].pc = "send"
    /\ \E ok \in BOOLEAN :
        /\ sends' = [sends EXCEPT ![JobKey(job[j])] =
                        IF ok THEN [@ EXCEPT !.ok = @ + 1] ELSE [@ EXCEPT !.failed = @ + 1]]
        /\ job' = [job EXCEPT ![j] = IF ok THEN [@ EXCEPT !.pc = "loop", !.last = "sent"]
                                     ELSE [@ EXCEPT !.pc = "release", !.last = "failed"]]
    /\ UNCHANGED <<now, users, mealVars, payVars, reminder_deliveries, jobRuns, referralVars>>

\* faulty variant: the row of the failed send is kept
ReleaseKeepsRow(key) == reminder_deliveries

\* DELETE FROM reminder_deliveries WHERE user_id, date and reminder_type match (lines 287-304)
_release_delivery_reservation(key) == reminder_deliveries \ {key}

\* the except branch of the send (lines 413-420, 659-667)
JobRelease(j) ==
    /\ job[j].pc = "release"
    /\ reminder_deliveries' = _release_delivery_reservation(JobKey(job[j]))
    /\ job' = [job EXCEPT ![j] = [@ EXCEPT !.pc = "loop", !.last = "released"]]
    /\ UNCHANGED <<now, users, mealVars, payVars, jobRuns, sends, referralVars>>

\* the loop is over: the run returns its statistics
JobDone(j) ==
    /\ job[j].pc = "loop"
    /\ job[j].rows = {}
    /\ job' = [job EXCEPT ![j] = IdleJob]
    /\ UNCHANGED <<now, users, mealVars, payVars, reminder_deliveries, jobRuns, sends, referralVars>>

InitReminders ==
    /\ reminder_deliveries = {}
    /\ job = [j \in Runs |-> IdleJob]
    /\ jobRuns = 0
    /\ sends = [key \in DeliveryKeys |-> NoSends]

\* ------------------------------------------------------------ referral
Calls == {1, 2}                \* concurrent redeem_referral_code calls
\* referral_codes: the code of each user; a third code that no row holds
referral_codes == [c \in {"c1", "c2"} |-> IF c = "c1" THEN "u1" ELSE "u2"]
Codes == DOMAIN referral_codes \cup {"unknown"}

IdleRed == [pc |-> "idle", user |-> "none", code |-> "none", result |-> "none"]

\* rate limit on the referral_redeem_attempt events of the last minute, which are not kept here:
\* either answer; then the attempt event is written (lines 147-153)
RedeemStart(i) ==
    /\ redeems < MaxRedeems
    /\ red[i].pc = "idle"
    /\ \A q \in Calls : q < i => red[q].pc # "idle"
    /\ \E u \in Users, code \in Codes, limited \in BOOLEAN :
        red' = [red EXCEPT ![i] =
                  IF limited THEN [pc |-> "done", user |-> u, code |-> code, result |-> "RATE_LIMITED"]
                  ELSE [pc |-> "tx", user |-> u, code |-> code, result |-> "none"]]
    /\ redeems' = redeems + 1
    /\ UNCHANGED <<now, users, mealVars, payVars, reminderVars, referral_redemptions, redeemOk>>

\* faulty variant: the unique constraint on redeemer_user_id is missing
NoRedeemerConstraint(u) == FALSE

\* the INSERT raises UniqueViolationError: a row holds this redeemer_user_id (db.py line 381)
RedeemerExists(u) == \E row \in referral_redemptions : row.redeemer_user_id = u

\* UPDATE users SET referral_credits = referral_credits + $1 WHERE id = ANY($2) (lines 196-205)
GrantCredits(ids) ==
    [u \in Users |-> IF u \in ids
                     THEN [users[u] EXCEPT !.referral_credits = @ + _REFERRAL_BONUS_CREDITS]
                     ELSE users[u]]

\* the transaction of the redemption (lines 156-205)
RedeemTx(i) ==
    /\ red[i].pc = "tx"
    /\ LET u == red[i].user
           code == red[i].code
           answer(c) == [red EXCEPT ![i] = [@ EXCEPT !.pc = "done", !.result = c]]
       IN IF code \notin DOMAIN referral_codes
          THEN /\ red' = answer("INVALID_REFERRAL_CODE")
               /\ UNCHANGED <<users, referral_redemptions, redeemOk>>
          ELSE IF referral_codes[code] = u
          THEN /\ red' = answer("REFERRAL_SELF_REDEEM")
               /\ UNCHANGED <<users, referral_redemptions, redeemOk>>
          ELSE IF RedeemerExists(u)
          THEN /\ red' = answer("REFERRAL_ALREADY_REDEEMED")
               /\ UNCHANGED <<users, referral_redemptions, redeemOk>>
          ELSE /\ referral_redemptions' = referral_redemptions \cup
                      {[redeemer_user_id |-> u, referrer_user_id |-> referral_codes[code], code |-> code,
                        credits_granted |-> _REFERRAL_BONUS_CREDITS]}
               /\ users' = GrantCredits({u, referral_codes[code]})
               /\ red' = answer("redeemed")
               /\ redeemOk' = [redeemOk EXCEPT ![u] = @ + 1]
    /\ UNCHANGED <<now, mealVars, payVars, reminderVars, redeems>>

\* the response is sent
RedeemReturn(i) ==
    /\ red[i].pc = "done"
    /\ red' = [red EXCEPT ![i] = IdleRed]
    /\ UNCHANGED <<now, users, mealVars, payVars, reminderVars, referral_redemptions, redeems, redeemOk>>

InitReferral ==
    /\ referral_redemptions = {}
    /\ red = [i \in Calls |-> IdleRed]
    /\ redeems = 0
    /\ redeemOk = [u \in Users |-> 0]

InitOther ==
    /\ InitReminders
    /\ InitReferral

FreeUser == [subscription_status |-> "free", subscription_active_until |-> None, referral_credits |-> 0]
ActiveUser(until) == [subscription_status |-> "active", subscription_active_until |-> until, referral_credits |-> 0]

InitMeal ==
    /\ analyze_requests = [uk \in Users \X AllKeys |-> NoRow]
    /\ usage_daily = << >>
    /\ meals = [uk \in Users \X (AllKeys \cup {NoKey}) |-> 0]
    /\ daily_stats = << >>
    /\ req = [r \in Reqs |-> IdleReq]
    /\ started = 0
    /\ execCalls = [uk \in Users \X AllKeys |-> 0]
    /\ firstResp = [uk \in Users \X AllKeys |-> NoResult]

InitPay ==
    /\ yookassa_payments = [p \in PaymentIds |-> NoMapping]
    /\ payment_webhook_events = << >>
    /\ payment_events = {}
    /\ webhook_dedupe_memory = [p \in Procs |-> {}]
    /\ ref = [i \in Refs |-> IdleRef]
    /\ delivered = 0
    /\ extCount = << >>
    /\ lastHook = NoHook

\* the meal pipeline of one free user
Init ==
    /\ now = 0
    /\ users = [u \in Users |-> FreeUser]
    /\ InitMeal
    /\ InitPay
    /\ InitOther

MealNext ==
    \E r \in Reqs :
        \/ Start(r)
        \/ Lookup(r)
        \/ Precheck(r)
        \/ InsertLedger(r)
        \/ ReadBack(r)
        \/ Reserve(r)
        \/ ForcedFailure(r)
        \/ CallInference(r)
        \/ Finalize(r)
        \/ CompensateQuota(r)
        \/ CompensateLedger(r)
        \/ Return(r)

Next == MealNext

Spec == Init /\ [][Next]_vars

\* submissions of one owner racing on the same keys, with the inference call and every write succeeding
RaceNext ==
    \E r \in Reqs :
        \/ StartWith(r, Keys)
        \/ Lookup(r)
        \/ Precheck(r)
        \/ InsertLedger(r)
        \/ ReadBack(r)
        \/ Reserve(r)
        \/ CallInferenceWith(r, {"ok"})
        \/ FinalizeWith(r, {"none"})
        \/ CompensateQuotaWith(r, {TRUE})
        \/ CompensateLedgerWith(r, {TRUE})
        \/ Return(r)

SpecRace == Init /\ [][RaceNext]_vars

\* the meal pipeline while the owner's subscription is extended and the day changes
QuotaNext ==
    \/ \E r \in Reqs :
        \/ StartWith(r, {NoKey})
        \/ Precheck(r)
        \/ Reserve(r)
        \/ ForcedFailure(r)
        \/ CallInference(r)
        \/ Finalize(r)
        \/ CompensateQuota(r)
        \/ Return(r)
    \/ Subscribe
    \/ Tick

SpecQuota == Init /\ [][QuotaNext]_vars

\* the owners whose limit the reservation is checked against: free, blocked, each with or without
\* one referral credit
ReserveOwners ==
    {[subscription_status |-> st, subscription_active_until |-> None, referral_credits |-> c] :
        st \in {"free", "blocked"}, c \in {0, 1}}

\* quota reservation with the failure injection switched on: u1 starts the day with some photos used
InitReserve ==
    /\ now = 0
    /\ \E row \in ReserveOwners : users = [u \in Users |-> IF u = "u1" THEN row ELSE FreeUser]
    /\ analyze_requests = [uk \in Users \X AllKeys |-> NoRow]
    /\ \E n \in 0..(FreeDailyLimit + 1) :
          usage_daily = IF n = 0 THEN << >> ELSE [x \in {<<"u1", 0>>} |-> n]
    /\ meals = [uk \in Users \X (AllKeys \cup {NoKey}) |-> 0]
    /\ daily_stats = << >>
    /\ req = [r \in Reqs |-> IdleReq]
    /\ started = 0
    /\ execCalls = [uk \in Users \X AllKeys |-> 0]
    /\ firstResp = [uk \in Users \X AllKeys |-> NoResult]
    /\ InitPay
    /\ InitOther

ReserveNext ==
    \E r \in Reqs :
        \/ StartWith(r, {NoKey})
        \/ Precheck(r)
        \/ Reserve(r)
        \/ ForcedFailure(r)
        \/ CompensateQuota(r)
        \/ Return(r)

SpecReserve == InitReserve /\ [][ReserveNext]_vars

\* the counter row the release UPDATE finds is an input of the statement: here the row is lowered
\* from outside the handler (a correction by hand) while attempts are in flight
ResetCounter ==
    /\ Quiet
    /\ \E ud \in DOMAIN usage_daily, n \in 0..(FreeDailyLimit + 1) :
        /\ n < usage_daily[ud]
        /\ usage_daily' = [usage_daily EXCEPT ![ud] = n]
    /\ UNCHANGED <<now, users, analyze_requests, meals, daily_stats, req, started, execCalls, firstResp, payVars, otherVars>>

ReleaseNext ==
    \/ ReserveNext
    \/ ResetCounter

SpecRelease == InitReserve /\ [][ReleaseNext]_vars

\* the users rows whose daily limit on day t is the free limit
LimitTwoOwners(t) ==
    {row \in [subscription_status : {"free", "active", "blocked"},
              subscription_active_until : {None} \cup 0..MaxNow,
              referral_credits : {0, FreeDailyLimit}] :
        get_user_daily_limit(row, t) = FreeDailyLimit}

\* the sequential scenario: an owner with limit 2 and nothing used submits K1, K1, K2, K3, each
\* submission after the answer to the one before; nothing fails and no rate limit is hit
InitScenario ==
    /\ now \in 0..MaxNow
    /\ \E row \in LimitTwoOwners(now) : users = [u \in Users |-> IF u = "u1" THEN row ELSE FreeUser]
    /\ InitMeal
    /\ InitPay
    /\ InitOther

ScenarioNext ==
    \/ ScenarioStart(1)
    \/ Lookup(1)
    \/ PrecheckWith(1, {FALSE})
    \/ InsertLedger(1)
    \/ Reserve(1)
    \/ CallInferenceWith(1, {"ok"})
    \/ FinalizeWith(1, {"none"})
    \/ Return(1)

SpecScenario == InitScenario /\ [][ScenarioNext]_vars

\* payment reconciliation: u1 free, lapsed, expiring today or paid for ten more days
InitPayments ==
    /\ now = MaxNow
    /\ users \in {[u \in Users |-> IF u = "u1" THEN first ELSE FreeUser] :
                     first \in {FreeUser, ActiveUser(0), ActiveUser(MaxNow), ActiveUser(10)}}
    /\ InitMeal
    /\ InitPay
    /\ InitOther

PayNext ==
    \/ CreatePayment
    \/ Deliver
    \/ HookReturn
    \/ \E i \in Refs :
        \/ RefreshStart(i)
        \/ RefreshFetch(i)
        \/ RefreshLocal(i)
        \/ RefreshApply(i)
        \/ RefreshReturn(i)

SpecPay == InitPayments /\ [][PayNext]_vars

\* the deliveries about the payment p1 of u1: its success, its capture pending, its cancellation
FramePayloads ==
    {w \in WebhookPayloads :
        /\ w.event_id = "e1" /\ w.object.id = "p1" /\ w.object.metadata_user_id = "u1"
        /\ <<w.object.status, w.object.paid, w.object.captured>> \in
              {<<"succeeded", "true", "true">>, <<"pending", "false", "false">>, <<"canceled", "false", "false">>}}

\* one of these deliveries reaches the process a, with or without the credential
DeliverFrame ==
    \E payload \in FramePayloads, headers \in ProviderHeaders : Webhook("a", payload, headers)

\* the meal pipeline with every failure of the attempt itself, while the store accepts the two
\* compensation writes
SettledNext ==
    \E r \in Reqs :
        \/ Start(r)
        \/ Lookup(r)
        \/ Precheck(r)
        \/ InsertLedger(r)
        \/ ReadBack(r)
        \/ Reserve(r)
        \/ ForcedFailure(r)
        \/ CallInference(r)
        \/ Finalize(r)
        \/ CompensateQuotaWith(r, {TRUE})
        \/ CompensateLedgerWith(r, {TRUE})
        \/ Return(r)

SpecSettled == Init /\ [][SettledNext]_vars

\* the meal pipeline of an owner who is free or blocked, with or without a referral credit
SpecBlocked == InitReserve /\ [][SettledNext]_vars

\* the payment handlers next to the meal analysis of one owner, with nothing failing
FrameNext ==
    \/ CreatePayment
    \/ DeliverFrame
    \/ HookReturn
    \/ \E i \in Refs :
        \/ RefreshStart(i)
        \/ RefreshFetch(i)
        \/ RefreshLocal(i)
        \/ RefreshApply(i)
        \/ RefreshReturn(i)
    \/ StartWith(1, {NoKey})
    \/ PrecheckWith(1, {FALSE})
    \/ Reserve(1)
    \/ CallInferenceWith(1, {"ok"})
    \/ FinalizeWith(1, {"none"})
    \/ Return(1)

SpecFrame == InitPayments /\ [][FrameNext]_vars

\* webhook authentication: deliveries under every deployment mode and header combination
AuthNext ==
    \/ CreatePayment
    \/ DeliverAny
    \/ HookReturn

SpecAuth == InitPayments /\ [][AuthNext]_vars

\* the reminder jobs run, twice at a time, for free users
ReminderNext ==
    \E j \in Runs :
        \/ JobStart(j)
        \/ JobReserve(j)
        \/ JobSend(j)
        \/ JobRelease(j)
        \/ JobDone(j)

SpecReminders == Init /\ [][ReminderNext]_vars

\* redemptions of referral codes, two calls at a time
ReferralNext ==
    \E i \in Calls :
        \/ RedeemStart(i)
        \/ RedeemTx(i)
        \/ RedeemReturn(i)

SpecReferral == Init /\ [][ReferralNext]_vars

\* ------------------------------------------------------------- properties
Returned(r) == req[r].pc = "done"

\* C1: a valid submission made after its (owner, key) was completed returns the stored response,
\* equal to the response of the call that completed it, makes no inference call and has no effect
\* on the used count; the inference executor runs at most once for each (owner, key).
C1_ReplayReturnsStoredResponse ==
    /\ \A r \in Reqs :
          Returned(r) /\ req[r].sawCompleted /\ req[r].path # "validation" =>
              /\ req[r].result.kind = "ok"
              /\ req[r].result = firstResp[<<req[r].user, req[r].key>>]
              /\ req[r].result.body = JsonLoads(analyze_requests[<<req[r].user, req[r].key>>].response_json)
              /\ req[r].delta = 0
              /\ req[r].calls = 0
    /\ \A uk \in Users \X Keys : execCalls[uk] <= 1

C1_Witness ==
    \E r \in Reqs :
        /\ Returned(r) /\ req[r].sawCompleted /\ req[r].path = "replay_lookup"
        /\ req[r].result.kind = "ok"
        /\ execCalls[<<req[r].user, req[r].key>>] = 1
        /\ PhotosUsed(req[r].user, now) = 1

InFlight(uk) == \E r \in Reqs : req[r].pc # "idle" /\ <<req[r].user, req[r].key>> = uk

Submitted == {uk \in Users \X Keys : analyze_requests[uk].status # "none"}

\* C2: once all the submissions of an (owner, key) have returned, with the inference call and every
\* store write succeeding, the one ledger row of (owner, key) is completed, one meal is stored for it,
\* and the owner's used count has grown by one for each key submitted.
C2_OneCompletedRowPerKey ==
    /\ \A uk \in Submitted : ~InFlight(uk) =>
          analyze_requests[uk].status = "completed" /\ meals[uk] = 1
    /\ (\A r \in Reqs : req[r].pc = "idle") =>
          \A u \in Submitters : PhotosUsed(u, now) = Cardinality({uk \in Submitted : uk[1] = u})

\* the winner of the insert race lost its row to the loser's compensation
C2_Witness ==
    \E r \in Reqs :
        /\ Returned(r) /\ req[r].path = "commit_lost"
        /\ analyze_requests[<<req[r].user, req[r].key>>].status = "failed"
        /\ PhotosUsed(req[r].user, now) = 0

FailedAfterReservation == {"forced", "inference", "commit", "commit_lost"}

\* C5: an attempt that fails after its quota reservation (forced failure, provider error, invalid
\* output, commit failure) and whose release write succeeds has changed the used count by zero.
C5_FailedAttemptNetZero ==
    \A r \in Reqs :
        Returned(r) /\ req[r].path \in FailedAfterReservation /\ ~req[r].releaseFailed =>
            req[r].result.kind = "error" /\ req[r].delta = 0

C5_Witness ==
    \E r \in Reqs :
        /\ Returned(r) /\ req[r].path = "inference" /\ ~req[r].releaseFailed
        /\ req[r].calls = 1 /\ req[r].delta = 0
        /\ PhotosUsed(req[r].user, now) = 0

\* C6: a submission that finds the ledger row of its (owner, key) in status processing or failed,
\* at the initial lookup or at the read-back after the insert race, goes no further: it is answered
\* IDEMPOTENCY_CONFLICT, reserves no quota, makes no inference call and never reaches the commit.
C6_ConflictDoesNotProceed ==
    \A r \in Reqs :
        req[r].found \in {"processing", "failed"} =>
            /\ req[r].pc \in {"comp_ledger", "done"}
            /\ req[r].delta = 0 /\ req[r].calls = 0 /\ ~req[r].usage_incremented
            /\ Returned(r) => /\ req[r].result = Err("IDEMPOTENCY_CONFLICT")
                              /\ req[r].path \in {"conflict_lookup", "conflict_race"}

C6_Witness ==
    /\ \E r \in Reqs : Returned(r) /\ req[r].found = "failed" /\ req[r].path = "conflict_lookup"
                         /\ meals[<<req[r].user, req[r].key>>] = 0

Committed(r) == Returned(r) /\ req[r].path = "ok"

\* C4, as stated: right after an attempt commits, the owner's used count for the attempt's day is at
\* most the limit under which the attempt reserved its quota.
C4_UsedAfterCommitWithinOwnLimit ==
    \A r \in Reqs :
        Committed(r) => PhotosUsed(req[r].user, req[r].result.body.date) <= req[r].result.body.dailyLimit

\* C4, amended: the used count produced by an attempt's own reservation, which a committed attempt
\* reports in its response, is at least one and at most the limit the attempt reserved under.
C4_ReservationWithinOwnLimit ==
    \A r \in Reqs :
        /\ req[r].pc \in {"reserved", "finalize"} =>
              1 <= req[r].reserved_photos_used /\ req[r].reserved_photos_used <= req[r].daily_limit
        /\ Committed(r) =>
              /\ 1 <= req[r].result.body.photosUsed
              /\ req[r].result.body.photosUsed <= req[r].result.body.dailyLimit

\* an attempt commits under the free limit after the owner's limit was raised and others reserved
C4_Witness ==
    \E r \in Reqs :
        /\ Committed(r)
        /\ req[r].result.body.dailyLimit = FreeDailyLimit
        /\ req[r].result.body.photosUsed <= FreeDailyLimit
        /\ PhotosUsed(req[r].user, req[r].result.body.date) > FreeDailyLimit

PaymentKey(p) == Sha256(<<"payment_success", p>>)

Grant(old_until, t) == Max(IF old_until = None THEN t ELSE old_until, t) + SUBSCRIPTION_DURATION_DAYS

ActiveUntil(u) == users[u].subscription_active_until

AnsweredSuccessWebhook(h, p) ==
    h # NoHook /\ h.named /\ h.payment_id = p /\ h.code # "PAYMENT_WEBHOOK_INVALID"

C8_ExtensionFromMaxOfCurrentAndNow ==
    /\ lastHook.applied = "extended" =>
          ActiveUntil(lastHook.user) = Grant(lastHook.old_until, now)
    /\ \A i \in Refs :
          ref[i].pc = "done" /\ ref[i].path = "extended" =>
              ActiveUntil(ref[i].user) = Grant(ref[i].old_until, now)

C8_Witness ==
    /\ lastHook.applied = "extended"
    /\ lastHook.old_until = 10 /\ now < 10
    /\ ActiveUntil(lastHook.user) = 10 + SUBSCRIPTION_DURATION_DAYS

IsOwner(u, p) == yookassa_payments[p].status # "none" /\ yookassa_payments[p].user_id = u

\* C9: a refresh whose payment has no mapping or a mapping of another user is answered NOT_FOUND
\* at once, without a call to the provider, and changes no mapping, ledger or subscription state.
C9_RefreshByNonOwnerNotFound ==
    [][\A i \in Refs :
          ref[i].pc = "idle" /\ ref'[i].pc # "idle" /\ ~IsOwner(ref'[i].user, ref'[i].payment_id) =>
              /\ ref'[i].pc = "done"
              /\ ref'[i].code = "NOT_FOUND"
              /\ ~ref'[i].called
              /\ UNCHANGED <<users, yookassa_payments, payment_webhook_events, payment_events, extCount>>]_vars

C9_Witness ==
    \E i \in Refs :
        /\ ref[i].pc = "done" /\ ref[i].code = "NOT_FOUND" /\ ~ref[i].called
        /\ yookassa_payments[ref[i].payment_id].status # "none"
        /\ yookassa_payments[ref[i].payment_id].user_id # ref[i].user

\* C10, as stated: an extension is applied only for a payment object with status succeeded,
\* paid true and captured true, all three present.
C10_OnlyFullyConfirmedExtends ==
    /\ lastHook.applied = "extended" => lastHook.confirmed
    /\ \A i \in Refs :
          ref[i].pc = "done" /\ ref[i].path = "extended" => FullyConfirmed(ref[i].provider_payment)

\* C10, amended: the webhook extends only for an event named payment.succeeded or an object with
\* status succeeded, paid true and captured true; refresh extends only for status succeeded with
\* neither paid nor captured false, an absent field being accepted.
C10_SuccessPredicates ==
    /\ lastHook.applied = "extended" => lastHook.named \/ lastHook.confirmed
    /\ \A i \in Refs :
          ref[i].pc = "done" /\ ref[i].path = "extended" =>
              /\ ref[i].provider_payment.status = "succeeded"
              /\ ref[i].provider_payment.paid # "false"
              /\ ref[i].provider_payment.captured # "false"

\* refresh extends on a provider answer that carries neither paid nor captured
C10_Witness ==
    \E i \in Refs :
        /\ ref[i].pc = "done" /\ ref[i].path = "extended"
        /\ ref[i].provider_payment.paid = Absent /\ ref[i].provider_payment.captured = Absent
\* C11: in production mode a delivery whose shared-credential check fails is rejected, whatever the
\* dev-bypass setting and whatever proxy headers it carries, and nothing of it is applied
C11_ProductionNeedsCredential ==
    (lastHook # NoHook /\ lastHook.headers.is_production /\ ~lastHook.headers.basic_ok) =>
        /\ lastHook.code = "PAYMENT_WEBHOOK_INVALID"
        /\ lastHook.applied = "none"

\* a production delivery without the credential, with the bypass set and a proxy header, was answered
C11_Witness ==
    /\ lastHook # NoHook
    /\ lastHook.headers.is_production /\ ~lastHook.headers.basic_ok
    /\ lastHook.headers.bypass_setting /\ lastHook.headers.has_proxy_header
    /\ lastHook.headers.ip_allowed
    /\ lastHook.named
    /\ lastHook.code = "PAYMENT_WEBHOOK_INVALID"

\* the used count of (u, d) after the step
PhotosUsedNext(u, d) == IF <<u, d>> \in DOMAIN usage_daily' THEN usage_daily'[<<u, d>>] ELSE 0

\* a keyed attempt has been answered QUOTA_EXCEEDED
QuotaRejected(r) ==
    Returned(r) /\ req[r].key # NoKey /\ req[r].result.code = "QUOTA_EXCEEDED"

\* C12 as stated: whenever a keyed attempt is rejected with QUOTA_EXCEEDED, the ledger row of its
\* (owner, key) is in status failed and the attempt has left the used count unchanged.
C12_QuotaRejectionMarksLedgerFailed ==
    \A r \in Reqs :
        QuotaRejected(r) =>
            /\ analyze_requests[<<req[r].user, req[r].key>>].status = "failed"
            /\ req[r].delta = 0

C12_RejectedAtReservation ==
    \A r \in Reqs :
        QuotaRejected(r) =>
            /\ req[r].delta = 0
            /\ req[r].path \in {"quota_precheck", "quota_reserve"}
            /\ (req[r].path = "quota_reserve" /\ ~req[r].ledgerWriteFailed) =>
                   analyze_requests[<<req[r].user, req[r].key>>].status = "failed"

C12_RejectedAtPrecheck ==
    \A r \in Reqs :
        (~Returned(r) /\ QuotaRejected(r)' /\ req'[r].path = "quota_precheck") =>
            UNCHANGED <<analyze_requests, usage_daily>>

\* C12: a keyed attempt rejected with QUOTA_EXCEEDED leaves the used count unchanged; when the
\* rejection comes from the reservation under the row lock, the attempt's ledger row ends in failed
\* (the write that marks it is best-effort); when it comes from the precheck before the ledger
\* insert, the rejection writes no ledger row and no counter.
C12_QuotaRejectionByStage ==
    []C12_RejectedAtReservation /\ [][C12_RejectedAtPrecheck]_vars

\* a keyed attempt passed the precheck, lost the reservation and marked its own row failed
C12_Witness ==
    \E r \in Reqs :
        /\ QuotaRejected(r) /\ req[r].path = "quota_reserve" /\ ~req[r].ledgerWriteFailed
        /\ req[r].found = "none"
        /\ analyze_requests[<<req[r].user, req[r].key>>].status = "failed"
        /\ PhotosUsed(req[r].user, now) = req[r].result.body.dailyLimit

\* a keyed attempt whose inference stage failed after its reservation: injected failure, provider
\* error, malformed output or schema-validation failure
InferenceFailed(r) == req[r].key # NoKey /\ req[r].path \in {"forced", "inference"}

C13_EndsFailed ==
    \A r \in Reqs :
        (Returned(r) /\ InferenceFailed(r)) =>
            /\ req[r].result.kind = "error"
            /\ ~req[r].ledgerWriteFailed => analyze_requests[<<req[r].user, req[r].key>>].status = "failed"

C13_ReleaseThenMark ==
    \A r \in Reqs :
        LET u == req[r].user
            d == req[r].today
            uk == <<req[r].user, req[r].key>>
        IN
        /\ (req[r].pc = "reserved" /\ InferenceFailed(r)') =>
               /\ req'[r].pc = "comp_quota"
               /\ UNCHANGED <<usage_daily, analyze_requests>>
        /\ (req[r].pc = "comp_quota" /\ InferenceFailed(r) /\ req'[r] # req[r]) =>
               /\ req'[r].pc = "comp_ledger"
               /\ UNCHANGED analyze_requests
               /\ ~req'[r].releaseFailed => PhotosUsedNext(u, d) = Release(PhotosUsed(u, d))
        /\ (req[r].pc = "comp_ledger" /\ InferenceFailed(r) /\ req'[r] # req[r]) =>
               /\ Returned(r)'
               /\ UNCHANGED usage_daily
               /\ ~req'[r].ledgerWriteFailed => analyze_requests'[uk].status = "failed"

\* C13: when the inference stage of a keyed attempt fails after its reservation (injected failure,
\* provider error, malformed output, schema-validation failure), the compensation first releases the
\* reservation and only then marks the attempt's ledger row failed, and the row is in status failed
\* when the error is returned (each of the two writes is best-effort).
C13_CompensationOrder ==
    []C13_EndsFailed /\ [][C13_ReleaseThenMark]_vars

\* a keyed attempt whose inference call failed has released its reservation and marked its row
C13_Witness ==
    \E r \in Reqs :
        /\ Returned(r) /\ InferenceFailed(r) /\ req[r].path = "inference"
        /\ req[r].result.code = "AI_PROVIDER_ERROR"
        /\ ~req[r].releaseFailed /\ ~req[r].ledgerWriteFailed
        /\ req[r].delta = 0
        /\ analyze_requests[<<req[r].user, req[r].key>>].status = "failed"

\* an attempt whose commit transaction failed after its inference call succeeded: the meal insert,
\* the daily totals or the ledger completion raised, or the completion found no row to update
CommitFailed(r) == req[r].path \in {"commit", "commit_lost"}

C14_EndsCompensated ==
    \A r \in Reqs :
        (Returned(r) /\ CommitFailed(r)) =>
            /\ req[r].result = Err("INTERNAL_ERROR")
            /\ req[r].calls = 1
            /\ ~req[r].releaseFailed => req[r].delta = 0
            /\ (req[r].key # NoKey /\ ~req[r].ledgerWriteFailed) =>
                   analyze_requests[<<req[r].user, req[r].key>>].status = "failed"
            /\ req[r].key # NoKey => meals[<<req[r].user, req[r].key>>] = 0

C14_NothingPersisted ==
    \A r \in Reqs :
        /\ (req[r].pc = "finalize" /\ CommitFailed(r)') =>
               /\ req'[r].pc = "comp_quota"
               /\ UNCHANGED <<meals, daily_stats, analyze_requests, usage_daily>>
        /\ (req[r].pc = "comp_quota" /\ CommitFailed(r) /\ req'[r] # req[r]) =>
               /\ req'[r].pc = IF req[r].key # NoKey THEN "comp_ledger" ELSE "done"
               /\ UNCHANGED <<meals, daily_stats, analyze_requests>>
        /\ (req[r].pc = "comp_ledger" /\ CommitFailed(r) /\ req'[r] # req[r]) =>
               /\ Returned(r)'
               /\ UNCHANGED <<meals, daily_stats, usage_daily>>

\* C14: when the meal insert, the daily totals or the ledger completion fails after the inference
\* call succeeded, the attempt ends as an inference failure does: the reservation is released, then
\* the ledger row is marked failed (each write best-effort), the error is returned, and neither a
\* meal row nor a daily-totals change of the attempt remains.
C14_CommitFailureCompensated ==
    []C14_EndsCompensated /\ [][C14_NothingPersisted]_vars

\* a keyed attempt whose commit transaction raised has been compensated and has left nothing behind
C14_Witness ==
    \E r \in Reqs :
        /\ Returned(r) /\ req[r].path = "commit" /\ req[r].key # NoKey
        /\ ~req[r].releaseFailed /\ ~req[r].ledgerWriteFailed
        /\ req[r].calls = 1 /\ req[r].delta = 0
        /\ analyze_requests[<<req[r].user, req[r].key>>].status = "failed"
        /\ meals[<<req[r].user, req[r].key>>] = 0
        /\ PhotosUsed(req[r].user, now) = 0
        /\ daily_stats = <<>>

\* the reservation step of attempt r is taken
Reserving(r) == req[r].pc = "reserve" /\ req'[r] # req[r]

C15_StrictComparison ==
    \A r \in Reqs :
        LET u == req[r].user
            d == req[r].today
            used == PhotosUsed(u, d)
            limit == req[r].daily_limit
        IN Reserving(r) =>
            IF used < limit
            THEN /\ req'[r].pc = "reserved"
                 /\ req'[r].reserved_photos_used = used + 1
                 /\ PhotosUsedNext(u, d) = used + 1
            ELSE /\ req'[r].pc = "done"
                 /\ req'[r].result = QuotaErr(limit, used, req[r].status)
                 /\ UNCHANGED usage_daily

C15_ZeroLimitNeverReserves ==
    \A r \in Reqs :
        /\ req[r].pc \in {"reserve", "reserved"} => req[r].daily_limit > 0
        /\ (req[r].pc = "precheck" /\ get_user_daily_limit(req[r].snap, now) = 0) => req[r].delta = 0

C15_ZeroLimitRejected ==
    \A r \in Reqs :
        (req[r].pc = "precheck" /\ get_user_daily_limit(req[r].snap, now) = 0 /\ req'[r] # req[r]) =>
            /\ req'[r].pc = "done" /\ req'[r].result.kind = "error"
            /\ UNCHANGED usage_daily

\* C15: a reservation succeeds exactly when the used count read under the row lock is strictly
\* below the attempt's limit, and then adds one; with used equal to the limit it is rejected with
\* QUOTA_EXCEEDED and the counter is left alone; an attempt whose limit is zero never reserves.
C15_ReserveIffStrictlyBelowLimit ==
    /\ [][C15_StrictComparison]_vars
    /\ []C15_ZeroLimitNeverReserves
    /\ [][C15_ZeroLimitRejected]_vars

\* a reservation read a used count equal to the limit under the lock and was rejected
C15_Witness ==
    \E r \in Reqs :
        /\ Returned(r) /\ req[r].path = "quota_reserve" /\ req[r].key = NoKey
        /\ req[r].result.body.photosUsed = req[r].result.body.dailyLimit
        /\ req[r].result.body.dailyLimit > 0
        /\ PhotosUsed(req[r].user, now) = req[r].result.body.dailyLimit

C16_CountersNonNegative ==
    \A ud \in DOMAIN usage_daily : usage_daily[ud] >= 0

C16_ReleaseFloorsAtZero ==
    \A r \in Reqs :
        LET u == req[r].user
            d == req[r].today
        IN (req[r].pc = "comp_quota" /\ req'[r] # req[r] /\ ~req'[r].releaseFailed) =>
              PhotosUsedNext(u, d) = IF PhotosUsed(u, d) = 0 THEN 0 ELSE PhotosUsed(u, d) - 1

\* C16: the used count of every (owner, day) is non-negative in every reachable state, and a
\* release applied to a count of zero leaves it at zero.
C16_UsedCountNeverNegative ==
    []C16_CountersNonNegative /\ [][C16_ReleaseFloorsAtZero]_vars

\* an attempt reserved, the row was lowered to zero meanwhile, and its release left the row at zero
C16_Witness ==
    \E r \in Reqs :
        /\ Returned(r) /\ req[r].path = "forced" /\ ~req[r].releaseFailed
        /\ req[r].delta = 1
        /\ <<req[r].user, now>> \in DOMAIN usage_daily
        /\ usage_daily[<<req[r].user, now>>] = 0

\* the n-th submission of the scenario has been answered
Answered(n) == started = n /\ Returned(1)

\* what the owner's successful attempt with key k answered when it left the used count at n
ScenarioResponse(k, n) ==
    Ok([meal |-> <<"u1", k>>, date |-> now, dailyLimit |-> FreeDailyLimit, photosUsed |-> n,
        status |-> get_effective_subscription_status(
                       users["u1"].subscription_status, users["u1"].subscription_active_until, now)])

\* C17: an owner with used = 0 and limit = 2 submits, one after the other, K1 (success, used 1),
\* K1 again (the identical response, used still 1, no second inference call), K2 (success, used 2)
\* and K3 (QUOTA_EXCEEDED carrying limit 2 and used 2, used still 2).
C17_SequentialScenario ==
    LET K1 == ScenarioKeys[1]
        K2 == ScenarioKeys[3]
        K3 == ScenarioKeys[4]
        used == PhotosUsed("u1", now)
    IN
    /\ Answered(1) => /\ req[1].result = ScenarioResponse(K1, 1)
                      /\ used = 1
    /\ Answered(2) => /\ req[1].result = ScenarioResponse(K1, 1)
                      /\ req[1].result = firstResp[<<"u1", K1>>]
                      /\ req[1].delta = 0 /\ req[1].calls = 0
                      /\ execCalls[<<"u1", K1>>] = 1
                      /\ used = 1
    /\ Answered(3) => /\ req[1].result = ScenarioResponse(K2, 2)
                      /\ used = 2
    /\ Answered(4) => /\ req[1].result.code = "QUOTA_EXCEEDED"
                      /\ req[1].result.body.dailyLimit = 2
                      /\ req[1].result.body.photosUsed = 2
                      /\ req[1].delta = 0
                      /\ used = 2
                      /\ analyze_requests[<<"u1", K3>>].status = "none"

\* the fourth submission, with K3, has been answered after K1 and K2 were completed
C17_Witness ==
    /\ Answered(4)
    /\ req[1].key = ScenarioKeys[4]
    /\ req[1].result.code = "QUOTA_EXCEEDED"
    /\ analyze_requests[<<"u1", ScenarioKeys[1]>>].status = "completed"
    /\ analyze_requests[<<"u1", ScenarioKeys[3]>>].status = "completed"
    /\ execCalls[<<"u1", ScenarioKeys[1]>>] = 1 /\ execCalls[<<"u1", ScenarioKeys[3]>>] = 1
    /\ PhotosUsed("u1", now) = 2

\* the store shows that payment p of user u succeeded: the mapping, the event ledger or the event log
ShowsSuccess(u, p) ==
    \/ yookassa_payments[p].status = "succeeded" /\ yookassa_payments[p].user_id = u
    \/ (PaymentKey(p) \in DOMAIN payment_webhook_events
          /\ payment_webhook_events[PaymentKey(p)] = "completed")
    \/ <<u, p>> \in payment_events

\* C18 as stated: a refresh by the owner of a payment that the store already shows as succeeded
\* does not call the provider.
C18_LocalSuccessSkipsProvider ==
    [][\A i \in Refs :
          (ref[i].pc = "fetch" /\ ShowsSuccess(ref[i].user, ref[i].payment_id)) => ~ref'[i].called]_vars

C18_ProviderCalledFirst ==
    \A i \in Refs :
        /\ (ref[i].pc = "fetch" /\ ref'[i] # ref[i]) =>
               /\ ref'[i].called
               /\ ref'[i].pc \in {"local", "apply"}
               /\ UNCHANGED <<users, yookassa_payments, payment_webhook_events, payment_events, extCount>>
        /\ (ref[i].pc = "local" /\ ref'[i] # ref[i]) =>
               /\ ref'[i].pc = "done"
               /\ ref'[i].code = IF ShowsSuccess(ref[i].user, ref[i].payment_id)
                                 THEN "ok" ELSE "PAYMENT_PROVIDER_ERROR"
               /\ UNCHANGED <<users, yookassa_payments, payment_webhook_events, payment_events, extCount>>

C18_LocalFallback ==
    \A i \in Refs :
        /\ (ref[i].pc \in {"local", "apply"} \/ (ref[i].pc = "done" /\ ref[i].path # "not_owner")) =>
               ref[i].called
        /\ (ref[i].pc = "done" /\ ref[i].path = "local_success") =>
               /\ ref[i].code = "ok"
               /\ ShowsSuccess(ref[i].user, ref[i].payment_id)
               /\ users[ref[i].user].subscription_active_until = ref[i].old_until
        /\ (ref[i].pc = "done" /\ ref[i].path = "fetch_failed") =>
               /\ ref[i].code = "PAYMENT_PROVIDER_ERROR"
               /\ ~ShowsSuccess(ref[i].user, ref[i].payment_id)

\* C18: a refresh by the payment's owner always calls the provider first, whatever the store
\* shows; the local success signal is consulted only when that call fails: then a payment the
\* store shows as succeeded is answered with the current subscription state and nothing is
\* written, and otherwise the provider error is returned.
C18_LocalSignalIsFallback ==
    []C18_LocalFallback /\ [][C18_ProviderCalledFirst]_vars

\* the provider call failed for a payment whose success the event ledger already holds
C18_Witness ==
    \E i \in Refs :
        /\ ref[i].pc = "done" /\ ref[i].path = "local_success" /\ ref[i].called
        /\ ref[i].code = "ok"
        /\ PaymentKey(ref[i].payment_id) \in DOMAIN payment_webhook_events
        /\ extCount # << >>

\* C19: once a subscriber's stored status is blocked it is blocked in every later state: no
\* success webhook and no refresh moves it back to active.
C19_BlockedIsSticky ==
    [][\A u \in Users :
          users[u].subscription_status = "blocked" => users'[u].subscription_status = "blocked"]_vars

\* a blocked subscriber's refresh has fetched a succeeded payment that no ledger row covers yet
C19_Witness ==
    \E i \in Refs :
        /\ ref[i].pc = "apply"
        /\ users[ref[i].user].subscription_status = "blocked"
        /\ _is_successful_provider_payment_for_refresh(ref[i].provider_payment)
        /\ PaymentKey(ref[i].payment_id) \notin DOMAIN payment_webhook_events

NonSuccessStatuses == {"pending", "waiting_for_capture", "canceled"}

\* C20: a refresh that observes the provider status pending, waiting_for_capture or canceled
\* changes only the status marker of the payment's mapping (created, or canceled): the
\* subscribers' status and active-until, the event ledger, the event log and the other fields and
\* rows of the mapping are the same after the call as before it.
C20_NonSuccessRefreshOnlyMarksMapping ==
    [][\A i \in Refs :
          LET p == ref[i].payment_id
              st == ref[i].provider_payment.status
          IN (ref[i].pc = "apply" /\ ref'[i] # ref[i] /\ st \in NonSuccessStatuses) =>
                /\ ref'[i].pc = "done"
                /\ ref'[i].code = IF st = "canceled" THEN "PAYMENT_PROVIDER_ERROR" ELSE "ok"
                /\ UNCHANGED <<users, payment_webhook_events, payment_events, extCount,
                               webhook_dedupe_memory>>
                /\ yookassa_payments' =
                      [yookassa_payments EXCEPT
                          ![p].status = IF st = "canceled" THEN "canceled" ELSE "created"]]_vars

\* the provider reported waiting_for_capture for a mapping that was marked succeeded before
C20_Witness ==
    \E i \in Refs :
        /\ ref[i].pc = "done" /\ ref[i].path = "pending"
        /\ ref[i].provider_payment.status = "waiting_for_capture"
        /\ yookassa_payments[ref[i].payment_id].status = "created"
        /\ <<ref[i].user, ref[i].payment_id>> \in payment_events
        /\ users[ref[i].user].subscription_active_until = ref[i].old_until
        /\ users[ref[i].user].subscription_status = "active"

\* the request was rejected by the input validation or by the per-minute rate limit
RejectedEarly(r) == req[r].path \in {"validation", "rate_limit"}

C21_NothingRecorded ==
    \A r \in Reqs :
        (Returned(r) /\ RejectedEarly(r)) =>
            /\ req[r].result.code = IF req[r].path = "validation" THEN "VALIDATION_FAILED" ELSE "RATE_LIMITED"
            /\ req[r].delta = 0
            /\ req[r].calls = 0
            /\ req[r].found = "none"

C21_StepsBeforeLedgerWriteNothing ==
    \A r \in Reqs :
        /\ (~Returned(r) /\ Returned(r)' /\ RejectedEarly(r)') => req[r].pc \in {"idle", "precheck"}
        /\ (req[r].pc \in {"idle", "lookup", "precheck"} /\ req'[r] # req[r]) =>
               UNCHANGED <<analyze_requests, usage_daily, meals, daily_stats, execCalls, firstResp>>

\* C21: a meal-analysis request rejected by the input validation or by the per-minute rate limit
\* has taken only steps that come before the ledger insert: it inserted and changed no ledger
\* row, changed no used count and made no inference call.
C21_EarlyRejectionReachesNoLedger ==
    []C21_NothingRecorded /\ [][C21_StepsBeforeLedgerWriteNothing]_vars

\* a keyed request was rate-limited and no row exists for its key
C21_Witness ==
    \E r \in Reqs :
        /\ Returned(r) /\ req[r].path = "rate_limit" /\ req[r].key # NoKey
        /\ req[r].result.code = "RATE_LIMITED"
        /\ analyze_requests[<<req[r].user, req[r].key>>].status = "none"
        /\ execCalls[<<req[r].user, req[r].key>>] = 0

\* the delivery does not authenticate: its sender is not allowed, or it carries no valid
\* credential and the development bypass does not apply
FailsAuthentication(h) ==
    \/ ~h.ip_allowed
    \/ ~h.basic_ok /\ ~(h.bypass_setting /\ ~h.is_production /\ h.has_proxy_header)

\* C22: a webhook delivery that fails authentication is rejected with PAYMENT_WEBHOOK_INVALID,
\* whatever event its payload names, and writes nothing: no event-ledger row, no change of any
\* subscriber's status or active-until, no change of the payment mapping or of the dedupe set.
C22_UnauthenticatedWebhookWritesNothing ==
    [][(lastHook = NoHook /\ lastHook' # NoHook /\ FailsAuthentication(lastHook'.headers)) =>
          /\ lastHook'.code = "PAYMENT_WEBHOOK_INVALID"
          /\ lastHook'.applied = "none"
          /\ UNCHANGED <<users, yookassa_payments, payment_webhook_events, payment_events,
                         webhook_dedupe_memory, extCount>>]_vars

\* an unauthenticated delivery outside production named a confirmed success and left no ledger row
C22_Witness ==
    /\ lastHook # NoHook
    /\ ~lastHook.headers.is_production /\ lastHook.headers.ip_allowed /\ ~lastHook.headers.basic_ok
    /\ lastHook.named /\ lastHook.confirmed
    /\ lastHook.code = "PAYMENT_WEBHOOK_INVALID"
    /\ lastHook.key \notin DOMAIN payment_webhook_events
    /\ yookassa_payments[lastHook.payment_id].status = "created"

\* the errors that send an attempt into compensation after its reservation, by stage
TriggerCodes(path) ==
    IF path = "inference" THEN {"AI_PROVIDER_ERROR", "VALIDATION_FAILED"} ELSE {"INTERNAL_ERROR"}

C23_StillFailedAndAnswered ==
    \A r \in Reqs :
        (Returned(r) /\ req[r].releaseFailed /\ req[r].key # NoKey) =>
            /\ req[r].path \in FailedAfterReservation
            /\ req[r].result.kind = "error"
            /\ req[r].result.code \in TriggerCodes(req[r].path)
            /\ req[r].delta = 1
            /\ ~req[r].ledgerWriteFailed => analyze_requests[<<req[r].user, req[r].key>>].status = "failed"

C23_ReleaseFailureGoesOn ==
    \A r \in Reqs :
        /\ (req[r].pc = "comp_quota" /\ req[r].key # NoKey /\ req'[r] # req[r]) =>
               /\ req'[r].pc = "comp_ledger"
               /\ req'[r].exc = req[r].exc
               /\ req'[r].releaseFailed => UNCHANGED usage_daily
        /\ (req[r].pc = "comp_ledger" /\ req'[r] # req[r]) =>
               /\ Returned(r)'
               /\ req'[r].result = req[r].exc

\* C23: when the quota-release write of the compensation fails, the request does not crash: the
\* failure is passed over, the attempt's ledger row is still marked failed (by its own best-effort
\* write) and the request returns the error that started the compensation; the used count stays
\* one too high.
C23_ReleaseFailureDoesNotCrash ==
    []C23_StillFailedAndAnswered /\ [][C23_ReleaseFailureGoesOn]_vars

\* a provider error was returned although the release write failed; the key's row is failed
C23_Witness ==
    \E r \in Reqs :
        /\ Returned(r) /\ req[r].releaseFailed /\ ~req[r].ledgerWriteFailed
        /\ req[r].key # NoKey /\ req[r].path = "inference"
        /\ req[r].result.code = "AI_PROVIDER_ERROR"
        /\ analyze_requests[<<req[r].user, req[r].key>>].status = "failed"
        /\ PhotosUsed(req[r].user, now) = 1

\* the state kept in the store by the payment handlers
PersistedPayments == <<users, yookassa_payments, payment_webhook_events, payment_events>>

C24_SetWithinLedger ==
    \A proc \in Procs :
        \A key \in webhook_dedupe_memory[proc] :
            key \in DOMAIN payment_webhook_events /\ payment_webhook_events[key] = "completed"

C24_SameAnswerWithEmptySet ==
    (lastHook = NoHook /\ lastHook' # NoHook /\ lastHook'.applied \in {"memory_duplicate", "duplicate"}) =>
        /\ lastHook'.code = "ok"
        /\ UNCHANGED PersistedPayments
        /\ lastHook'.key \in DOMAIN payment_webhook_events

\* C24: the in-process dedupe set never decides an outcome: a key held in any process's set has a
\* completed event-ledger row, so a delivery short-circuited by the set of one process is answered
\* by a process with an empty set through the ledger's unique key, with the same answer (ok) and
\* the same persisted state (nothing written).
C24_DedupeSetNeverGates ==
    []C24_SetWithinLedger /\ [][C24_SameAnswerWithEmptySet]_vars

\* a success delivery was short-circuited by the set of one process while another process's set
\* does not hold its key
C24_Witness ==
    /\ lastHook # NoHook /\ lastHook.applied = "memory_duplicate" /\ lastHook.named
    /\ \E proc \in Procs : lastHook.key \in webhook_dedupe_memory[proc]
    /\ \E proc \in Procs : lastHook.key \notin webhook_dedupe_memory[proc]
    /\ payment_webhook_events[lastHook.key] = "completed"

\* the owner's used count for today has reached the limit of the owner's row
QuotaExhausted(u) == PhotosUsed(u, now) >= get_user_daily_limit(users[u], now)

\* C25: the ledger lookup comes before the rate limit and the quota check: a valid submission
\* whose key had a completed record when it was made is either still at the lookup or was
\* answered there with a stored success; it never stands at the rate-limit and quota step and is
\* never answered RATE_LIMITED or QUOTA_EXCEEDED, whatever the owner's used count.
C25_ReplayBeforeLimits ==
    \A r \in Reqs :
        req[r].sawCompleted /\ req[r].path # "validation" =>
            /\ req[r].pc \in {"lookup", "done"}
            /\ Returned(r) =>
                /\ req[r].path = "replay_lookup"
                /\ req[r].found = "completed"
                /\ req[r].result.kind = "ok"

\* a replay answered at the lookup while the owner's quota for the day is used up
C25_Witness ==
    \E r \in Reqs :
        /\ Returned(r) /\ req[r].sawCompleted /\ req[r].path = "replay_lookup"
        /\ req[r].result.kind = "ok"
        /\ QuotaExhausted(req[r].user)

\* the run j takes the next row of its loop
TakesRow(j) == job[j].pc = "loop" /\ job'[j].rows # job[j].rows

C26_SentAtMostOnce == \A key \in DeliveryKeys : sends[key].ok <= 1

C26_ReservedUserSkipped ==
    \A j \in Runs :
        (TakesRow(j) /\ JobKey(job'[j]) \in reminder_deliveries) =>
            /\ job'[j].pc = "loop"
            /\ UNCHANGED <<reminder_deliveries, sends>>

\* C26: for every (user, run date, reminder type) the sender returns successfully at most once,
\* over all runs, one after another or at the same time; a run that comes to a user whose delivery
\* row exists goes on to the next user without sending and without touching the row.
C26_ReminderSentAtMostOnce ==
    []C26_SentAtMostOnce /\ [][C26_ReservedUserSkipped]_vars

\* a message was sent, and a run for the same date and type has just skipped that user
C26_Witness ==
    \E j \in Runs :
        /\ job[j].last = "skipped_reserved"
        /\ sends[JobKey(job[j])].ok = 1
        /\ JobKey(job[j]) \in reminder_deliveries

\* a run holds the reservation of the key: it is sending or about to release
Holds(j, key) == job[j].pc \in {"send", "release"} /\ JobKey(job[j]) = key

C27_NoRowLeftByFailedSend ==
    \A key \in reminder_deliveries : sends[key].ok > 0 \/ \E j \in Runs : Holds(j, key)

C27_FailedSendReleases ==
    \A j \in Runs :
        /\ (job[j].pc = "send" /\ job'[j].pc # "send" /\ sends'[JobKey(job[j])].failed # sends[JobKey(job[j])].failed)
              => job'[j].pc = "release" /\ JobKey(job'[j]) = JobKey(job[j])
        /\ (job[j].pc = "release" /\ job'[j].pc # "release")
              => JobKey(job[j]) \notin reminder_deliveries' /\ UNCHANGED sends

\* C27: a send that fails is followed by the release of its reservation, after which no row for
\* the (user, run date, reminder type) exists; so a delivery row never outlives a failed send: each
\* row belongs to a run that is sending or releasing, or to a successful send, and a later run for
\* the date reserves and sends again. (The DELETE itself is taken to succeed.)
C27_FailedSendFreesDelivery ==
    []C27_NoRowLeftByFailedSend /\ [][C27_FailedSendReleases]_vars

\* after a failed send, a later attempt for the same user, date and type was made and succeeded
C27_Witness ==
    \E key \in DeliveryKeys :
        /\ sends[key].failed >= 1
        /\ sends[key].ok = 1
        /\ key \in reminder_deliveries
        /\ key[3] = REMINDER_TYPE_MONTHLY_REPORT

\* the user has been answered redeemed: true before
HasRedeemed(u) == redeemOk[u] > 0

\* the call i is answered in this step
RedeemAnswered(i) == red[i].pc # "done" /\ red'[i].pc = "done"

\* the credits every user holds are those of the redemption rows: one for the user's own row and
\* one for each row that names the user as the owner of the code
CreditsOfRows(u) ==
    Cardinality({row \in referral_redemptions : row.redeemer_user_id = u}) * _REFERRAL_BONUS_CREDITS
    + Cardinality({row \in referral_redemptions : row.referrer_user_id = u}) * _REFERRAL_BONUS_CREDITS

\* C28 as stated: every attempt answered after the user's successful redemption is rejected as
\* already redeemed and changes no credits.
C28_FurtherAttemptAlreadyRedeemed ==
    [][\A i \in Calls :
          (RedeemAnswered(i) /\ HasRedeemed(red'[i].user)) =>
              /\ red'[i].result = "REFERRAL_ALREADY_REDEEMED"
              /\ UNCHANGED <<users, referral_redemptions>>]_vars

C28_RedeemedAtMostOnce ==
    \A u \in Users :
        /\ redeemOk[u] <= 1
        /\ Cardinality({row \in referral_redemptions : row.redeemer_user_id = u}) = redeemOk[u]
        /\ users[u].referral_credits = CreditsOfRows(u)

C28_FurtherAttemptRejected ==
    \A i \in Calls :
        (RedeemAnswered(i) /\ HasRedeemed(red'[i].user)) =>
            /\ UNCHANGED <<users, referral_redemptions, redeemOk>>
            /\ red'[i].result =
                  IF red[i].pc = "idle" THEN "RATE_LIMITED"
                  ELSE IF red[i].code \notin DOMAIN referral_codes THEN "INVALID_REFERRAL_CODE"
                  ELSE IF referral_codes[red[i].code] = red[i].user THEN "REFERRAL_SELF_REDEEM"
                  ELSE "REFERRAL_ALREADY_REDEEMED"

\* C28 (amended): a user's redemption takes effect at most once: no user is answered redeemed
\* twice or has two redemption rows, and the credits are exactly those of the rows; every attempt
\* answered after the user's successful redemption, begun before or after it, is rejected and
\* changes no row and no credits. It is rejected as already redeemed when it passes the rate limit
\* with the code of another user; the rate limit, an unknown code and the user's own code are
\* rejected first with their own errors.
C28_RedemptionTakesEffectOnce ==
    []C28_RedeemedAtMostOnce /\ [][C28_FurtherAttemptRejected]_vars

\* a second attempt with another user's code was rejected as already redeemed, and the redeemer
\* holds the one credit of the first
C28_Witness ==
    \E i \in Calls :
        /\ red[i].pc = "done" /\ red[i].result = "REFERRAL_ALREADY_REDEEMED"
        /\ redeemOk[red[i].user] = 1
        /\ users[red[i].user].referral_credits = _REFERRAL_BONUS_CREDITS

\* the attempt r did not insert the row of its key: it is at the initial lookup, at the read-back
\* after its INSERT lost, or in the except block entered from that read-back
NotInserter(r) == req[r].pc \in {"lookup", "readback"} \/ req[r].path = "conflict_race"

\* C29: a ledger row is changed only by the attempt that inserted it: a step of an attempt that
\* lost the insert race or found the row at the initial lookup leaves every ledger row as it is,
\* and a row that exists is never removed.
C29_OnlyInserterMutates ==
    [][/\ \A r \in Reqs : (req'[r] # req[r] /\ NotInserter(r)) => UNCHANGED analyze_requests
       /\ \A uk \in Users \X AllKeys :
             analyze_requests[uk].status # "none" => analyze_requests'[uk].status # "none"]_vars

\* the loser of the insert race has returned its conflict, and the row of the winner, which is
\* still between its reservation and its commit, is failed
C29_Witness ==
    \E r, w \in Reqs :
        /\ r # w
        /\ Returned(r) /\ req[r].path = "conflict_race" /\ req[r].found = "processing"
        /\ req[w].analyze_request_id = <<req[r].user, req[r].key>>
        /\ req[w].pc \notin {"idle", "done", "comp_quota", "comp_ledger"}
        /\ analyze_requests[<<req[r].user, req[r].key>>].status = "failed"

\* C30: the terminal states of a ledger row are absorbing: a row changes only when it is created
\* as processing or goes from processing to completed or to failed; a completed row keeps its
\* status and its stored result, and a failed row stays failed, so a failed key never completes.
C30_TerminalStatesAbsorbing ==
    [][\A uk \in Users \X AllKeys :
          analyze_requests'[uk] # analyze_requests[uk] =>
              \/ analyze_requests[uk].status = "none" /\ analyze_requests'[uk].status = "processing"
              \/ /\ analyze_requests[uk].status = "processing"
                 /\ analyze_requests'[uk].status \in {"completed", "failed"}]_vars

\* a later attempt found the failed row of its key and was refused, the row is still failed, and
\* the row of another key is completed
C30_Witness ==
    /\ \E r \in Reqs :
          /\ Returned(r) /\ req[r].found = "failed" /\ req[r].result.kind = "error"
          /\ analyze_requests[<<req[r].user, req[r].key>>].status = "failed"
    /\ \E uk \in Users \X AllKeys : analyze_requests[uk].status = "completed"

\* C31: with the owner's limit fixed, the used count of every (owner, day) is at most the limit
\* in every reachable state, also while attempts with distinct keys or without a key are between
\* their reservation and their return.
C31_UsedNeverExceedsFixedLimit ==
    \A ud \in DOMAIN usage_daily : usage_daily[ud] <= get_user_daily_limit(users[ud[1]], ud[2])

\* two attempts of one owner in flight at once: one holds the last unit of the limit, the other
\* passed the precheck and was refused under the lock
C31_Witness ==
    \E r, w \in Reqs :
        /\ r # w /\ req[r].user = req[w].user
        /\ req[r].key = NoKey \/ req[r].key # req[w].key
        /\ Returned(r) /\ req[r].path = "quota_reserve"
        /\ req[w].pc = "reserved" /\ req[w].usage_incremented
        /\ PhotosUsed(req[w].user, now) = get_user_daily_limit(users[req[w].user], now)

\* the authenticated delivery h names a payment and is a payment success for the webhook path:
\* its event is payment.succeeded, or its object is succeeded, paid and captured
TreatedAsSuccess(h) ==
    h # NoHook /\ h.code # "PAYMENT_WEBHOOK_INVALID" /\ h.payment_id # "" /\ (h.named \/ h.confirmed)

\* C32: every delivery that the webhook path treats as a payment success, and every refresh that
\* applies a provider success, uses the dedupe key of the payment id alone, so that all of them
\* contend on one ledger row and at most one of them extends.
C32_SuccessKeyOfPaymentIdAlone ==
    /\ TreatedAsSuccess(lastHook) => lastHook.key = PaymentKey(lastHook.payment_id)
    /\ \A key \in DOMAIN extCount : \E p \in PaymentIds : key = PaymentKey(p)
    /\ \A i \in Refs :
          ref[i].pc = "done" /\ ref[i].path \in {"extended", "duplicate"} =>
              LedgerStatus(PaymentKey(ref[i].payment_id)) = "completed"

\* a delivery of another event name with a confirmed object extends under its event-id key a
\* payment whose extension under the payment's key was applied before
C32_Witness ==
    /\ TreatedAsSuccess(lastHook) /\ ~lastHook.named /\ lastHook.applied = "extended"
    /\ lastHook.key # PaymentKey(lastHook.payment_id)
    /\ ExtCount(PaymentKey(lastHook.payment_id)) = 1
    /\ ExtCount(lastHook.key) = 1

\* C33: the reservation is decided against the limit of the owner's row as it is when the
\* reservation is made: it succeeds exactly when the used count read under the lock is below the
\* limit computed from the current row.
C33_ReservationAgainstCurrentLimit ==
    [][\A r \in Reqs :
          Reserving(r) =>
              (req'[r].pc = "reserved" <=>
                  PhotosUsed(req[r].user, req[r].today) < get_user_daily_limit(users[req[r].user], now))]_vars

\* the owner's subscription was extended after the attempt started: the attempt is refused under
\* the lock against the free limit although the used count is below the owner's current limit
C33_Witness ==
    \E r \in Reqs :
        /\ Returned(r) /\ req[r].path = "quota_reserve"
        /\ req[r].result.body.dailyLimit = FreeDailyLimit
        /\ req[r].result.body.photosUsed = PhotosUsed(req[r].user, now)
        /\ PhotosUsed(req[r].user, now) < get_user_daily_limit(users[req[r].user], now)

\* the stored subscription fields of a user
SubscriptionFields(u) == <<users[u].subscription_status, users[u].subscription_active_until>>

\* C34: the stored subscription status and active-until of a user change only in a step that
\* commits a new event-ledger row (an applied payment success or a block transition): the steps of
\* the meal analysis, the creation of a payment, a refresh that applies nothing and a webhook that
\* fails or is a duplicate insert no ledger row and leave both fields of every user as they are.
C34_SubscriptionChangedOnlyByCommit ==
    [][(\E u \in Users : SubscriptionFields(u)' # SubscriptionFields(u)) =>
          /\ \E key \in DOMAIN payment_webhook_events' :
                /\ key \notin DOMAIN payment_webhook_events
                /\ payment_webhook_events'[key] = "completed"
          /\ UNCHANGED <<mealVars>>
          /\ \/ lastHook = NoHook /\ lastHook' # NoHook /\ lastHook'.code = "ok"
             \/ \E i \in Refs : ref[i].pc = "apply" /\ ref'[i].pc = "done"]_vars

\* a meal analysis was committed for an owner whose payment had been applied: the subscription
\* is the one the payment left
C34_Witness ==
    /\ Returned(1) /\ req[1].path = "ok"
    /\ ExtCount(PaymentKey("p1")) = 1
    /\ yookassa_payments["p1"].user_id = req[1].user
    /\ users[req[1].user].subscription_status = "active"
    /\ users[req[1].user].subscription_active_until >= now + SUBSCRIPTION_DURATION_DAYS

\* the authenticated delivery h is a cancellation about a payment that has an owner, and it is
\* not the repetition of a delivery recorded before
BlockingDelivery(h) ==
    /\ h # NoHook /\ h.code # "PAYMENT_WEBHOOK_INVALID" /\ h.blocking
    /\ h.applied \notin {"duplicate", "memory_duplicate"}
    /\ h.payment_id \in PaymentIds /\ yookassa_payments[h.payment_id].status # "none"

\* C35: an authenticated cancellation event sets the stored status of the subscriber who owns
\* the payment to blocked and leaves that subscriber's active-until as it was, whether or not the
\* payment's success row exists in the event ledger.
C35_CancellationBlocksOwner ==
    [][(lastHook = NoHook /\ BlockingDelivery(lastHook')) =>
          LET owner == yookassa_payments[lastHook'.payment_id].user_id
          IN /\ users'[owner].subscription_status = "blocked"
             /\ users'[owner].subscription_active_until = users[owner].subscription_active_until]_vars

\* the cancellation of an owned payment was answered ok and only recorded: its owner, whose
\* extension for the payment is in the ledger, is not blocked
C35_Witness ==
    /\ BlockingDelivery(lastHook) /\ lastHook.code = "ok" /\ lastHook.applied = "recorded"
    /\ users[yookassa_payments[lastHook.payment_id].user_id].subscription_status # "blocked"
    /\ LedgerStatus(PaymentKey(lastHook.payment_id)) = "completed"

\* the returned attempt r had a key and its INSERT created the ledger row: it went on to the
\* reservation, and returned from there or from a later step
InsertedRecord(r) ==
    /\ Returned(r) /\ req[r].key # NoKey
    /\ req[r].path \in {"ok", "quota_reserve", "forced", "inference", "commit", "commit_lost"}

\* C36: when a keyed attempt that inserted its ledger row returns, with its response or with any
\* error, the row is completed or failed and not processing, provided the write that marks it
\* failed was accepted; it is completed when the attempt returns its response.
C36_ReturnLeavesRecordTerminal ==
    \A r \in Reqs :
        (InsertedRecord(r) /\ ~req[r].ledgerWriteFailed) =>
            /\ analyze_requests[<<req[r].user, req[r].key>>].status \in {"completed", "failed"}
            /\ req[r].path = "ok" <=> req[r].result.kind = "ok"
            /\ req[r].path = "ok" => analyze_requests[<<req[r].user, req[r].key>>].status = "completed"

\* an attempt whose commit transaction failed has returned its error and its row is failed
C36_Witness ==
    \E r \in Reqs :
        /\ InsertedRecord(r) /\ req[r].path = "commit" /\ ~req[r].ledgerWriteFailed
        /\ req[r].result.kind = "error"
        /\ analyze_requests[<<req[r].user, req[r].key>>].status = "failed"

\* the attempts of the owner committed on the day: each commit adds one to the day's meals_count
CommittedOn(u, d) == IF <<u, d>> \in DOMAIN daily_stats THEN daily_stats[<<u, d>>] ELSE 0

\* no attempt of the owner is between its start and the end of its last write
NoneInFlight(u) == \A r \in Reqs : req[r].pc \in {"idle", "done"} \/ req[r].user # u

\* C37: with the compensation writes accepted, whenever no attempt of an owner is in flight the
\* owner's used count of every day equals the number of the owner's attempts committed on that
\* day, whatever successes, failures, replays and conflicts came before.
C37_UsedEqualsCommitted ==
    \A u \in Users :
        NoneInFlight(u) =>
            \A d \in 0..MaxNow : PhotosUsed(u, d) = CommittedOn(u, d)

\* nothing in flight after a commit, a failed attempt and a replay: one photo used, one commit
C37_Witness ==
    /\ NoneInFlight("u1")
    /\ PhotosUsed("u1", now) = 1 /\ CommittedOn("u1", now) = 1
    /\ \E k \in Keys : analyze_requests[<<"u1", k>>].status = "failed"
    /\ \E r \in Reqs : Returned(r) /\ req[r].path = "replay_lookup"

\* the delivery answered in this step extended a subscription for payment p
ExtendsNow(p) ==
    /\ lastHook = NoHook /\ lastHook' # NoHook
    /\ lastHook'.applied = "extended" /\ lastHook'.payment_id = p

\* C38: the ledger row of the payment-success key, the extension and the mapping's success marker
\* go together: the key's row is completed exactly when one extension was applied under it, and
\* every step that extends a subscription for a payment is the step that creates the completed
\* row of the payment's success key and marks the mapping succeeded.
C38_RowExtensionMarkerTogether ==
    /\ [](\A p \in PaymentIds :
              LedgerStatus(PaymentKey(p)) = "completed" <=> ExtCount(PaymentKey(p)) = 1)
    /\ [][\A p \in PaymentIds :
              ExtendsNow(p) =>
                  /\ PaymentKey(p) \notin DOMAIN payment_webhook_events
                  /\ PaymentKey(p) \in DOMAIN payment_webhook_events'
                  /\ payment_webhook_events'[PaymentKey(p)] = "completed"]_vars

\* a delivery of another event name with a confirmed object has extended for the payment while
\* the payment's success key has no row
C38_Witness ==
    /\ TreatedAsSuccess(lastHook) /\ lastHook.applied = "extended"
    /\ lastHook.payment_id \in PaymentIds
    /\ LedgerStatus(PaymentKey(lastHook.payment_id)) = "none"
    /\ ExtCount(lastHook.key) = 1

\* the stored status of the payment's mapping row, "" without a row
MappingStatus(p) == IF p \in DOMAIN yookassa_payments THEN yookassa_payments[p].status ELSE ""

\* C39: a mapping whose status is succeeded never returns to created, neither by a refresh that
\* observes a pending payment nor by a create call that is given the same payment id.
C39_SucceededNeverLowered ==
    [][\A p \in PaymentIds :
          MappingStatus(p) = "succeeded" => yookassa_payments'[p].status # "created"]_vars

\* the extension of the payment stays applied while its mapping reads created again
C39_Witness ==
    \E p \in PaymentIds :
        /\ MappingStatus(p) = "created"
        /\ ExtCount(PaymentKey(p)) = 1
        /\ LedgerStatus(PaymentKey(p)) = "completed"

\* the effective subscription status of the stored row of u is blocked
EffectivelyBlocked(u) ==
    get_effective_subscription_status(
        users[u].subscription_status, users[u].subscription_active_until, now) = "blocked"

====
